---------------------------- MODULE Spec2Model ----------------------------
(***************************************************************************)
(* httpsify: dynamic HTTPS reverse proxy for local development.            *)
(*                                                                         *)
(* The model covers the request path of internal/proxy (ServeHTTP,         *)
(* parseHost, handleHTTP, handleWebSocket, the response wrapper), the      *)
(* port policy of internal/config and the transport pool.                  *)
(* It also covers certificate provisioning (internal/tls), the access    *)
(* record (internal/logging), and run of cmd/httpsify: the configuration   *)
(* built from flags and environment, startup and shutdown.                 *)
(*                                                                         *)
(* Strings are sequences of one-character strings, so that formatting      *)
(* (Itoa, Sprintf) and parsing (the host pattern, Atoi) are computed and   *)
(* not assumed.  Integers stay below 2^31: every digit run the model       *)
(* feeds to Atoi has at most seven digits.                                 *)
(***************************************************************************)
EXTENDS Integers, Sequences, FiniteSets, TLC

VARIABLES
    cfg,            \* config.Config: the policy fixed at startup
    rq,             \* per request: the handler's position and its data
    transportPool,  \* Server.transportPool: the idle transports
    transportsMade, \* number of transports sync.Pool.New has built
    requestIDGen,   \* Server.requestIDGen
    probe           \* input and result of a function applied on its own

vars == <<cfg, rq, transportPool, transportsMade, requestIDGen, probe>>

---------------------------------------------------------------------------
(* Bounds of the model *)

\* number of requests handled concurrently
NReq == 2
\* ports 0..MaxSmallPort are enumerated one by one next to the boundary ports
MaxSmallPort == 12
\* ports of the policies of SpecPolicy range over 1..MaxPolicyPort
MaxPolicyPort == 4
\* bytes each peer of a tunnel may send
MaxPayload == 2

---------------------------------------------------------------------------
(* Text *)

Digits == <<"0", "1", "2", "3", "4", "5", "6", "7", "8", "9">>

IsDigit(c) == \E i \in 1..10 : Digits[i] = c

DigitVal(c) == (CHOOSE i \in 1..10 : Digits[i] = c) - 1

AllDigits(s) == \A i \in 1..Len(s) : IsDigit(s[i])

RECURSIVE ItoaPos(_)
ItoaPos(n) == IF n < 10 THEN <<Digits[n + 1]>>
              ELSE Append(ItoaPos(n \div 10), Digits[(n % 10) + 1])

\* fmt's %d and strconv.Itoa
Itoa(n) == IF n < 0 THEN <<"-">> \o ItoaPos(-n) ELSE ItoaPos(n)

RECURSIVE AtoiVal(_, _)
AtoiVal(s, acc) == IF s = <<>> THEN acc
                   ELSE AtoiVal(Tail(s), acc * 10 + DigitVal(Head(s)))

\* strconv.Atoi: an optional sign, then digits only
Atoi(s) ==
    LET neg  == s # <<>> /\ Head(s) = "-"
        body == IF s # <<>> /\ Head(s) \in {"-", "+"} THEN Tail(s) ELSE s
    IN  IF body = <<>> \/ ~AllDigits(body)
        THEN [ok |-> FALSE, val |-> 0]
        ELSE [ok |-> TRUE,
              val |-> IF neg THEN -AtoiVal(body, 0) ELSE AtoiVal(body, 0)]

sLocalhost == <<"l", "o", "c", "a", "l", "h", "o", "s", "t">>
sLocaltestMe == <<"l", "o", "c", "a", "l", "t", "e", "s", "t", ".", "m", "e">>
sExampleCom == <<"e", "x", "a", "m", "p", "l", "e", ".", "c", "o", "m">>

---------------------------------------------------------------------------
(* internal/config *)

MinPort == 1
MaxPort == 65535

PortRange(start, end) == [Start |-> start, End |-> end]

Contains(pr, port) == port >= pr.Start /\ port <= pr.End

\* ValidatePort returns nil
ValidatePortOK(port) == ~(port < MinPort \/ port > MaxPort)

\* the error text of ValidatePort
ValidatePortError(port) ==
    <<"port ">> \o Itoa(port) \o <<" out of valid range (1-65535)">>

IsPortAllowed_AllowFirst(c, port) ==
    Contains(c.AllowRange, port)

RECURSIVE DeniedFrom(_, _, _)
DeniedFrom(deny, i, port) ==
    IF i > Len(deny) THEN FALSE
    ELSE IF Contains(deny[i], port) THEN TRUE
    ELSE DeniedFrom(deny, i + 1, port)

IsPortAllowed(c, port) ==
    IF DeniedFrom(c.DenyPorts, 1, port) THEN FALSE
    ELSE Contains(c.AllowRange, port)

\* DefaultConfig: DefaultDenyPorts parsed, AllowRange 1024-65535
DefaultConfig ==
    [DenyPorts  |-> <<PortRange(22, 22), PortRange(25, 25), PortRange(135, 139),
                      PortRange(445, 445), PortRange(3389, 3389),
                      PortRange(5900, 5900)>>,
     AllowRange |-> PortRange(1024, 65535),
     AccessLog  |-> TRUE]

\* strings.TrimSpace, for the white space the model's texts hold
RECURSIVE TrimSpace(_)
TrimSpace(s) ==
    IF s # <<>> /\ Head(s) \in {" ", "\t"} THEN TrimSpace(Tail(s))
    ELSE IF s # <<>> /\ s[Len(s)] \in {" ", "\t"}
         THEN TrimSpace(SubSeq(s, 1, Len(s) - 1))
         ELSE s

\* strings.Index for a one-character separator; 0 when it does not occur
IndexOf(s, c) ==
    IF \E i \in 1..Len(s) : s[i] = c
    THEN CHOOSE i \in 1..Len(s) : s[i] = c /\ \A j \in 1..(i - 1) : s[j] # c
    ELSE 0

\* strings.Split for a one-character separator
RECURSIVE StringsSplit(_, _)
StringsSplit(s, c) ==
    LET i == IndexOf(s, c)
    IN  IF i = 0 THEN <<s>>
        ELSE <<SubSeq(s, 1, i - 1)>> \o StringsSplit(SubSeq(s, i + 1, Len(s)), c)

NoRange == [ok |-> FALSE, pr |-> PortRange(0, 0)]

\* a ParsePortRange without the comparison of start and end
ParsePortRange_NoOrderCheck(s0) ==
    LET s == TrimSpace(s0)
        i == IndexOf(s, "-")
    IN  IF i # 0
        THEN LET start == Atoi(TrimSpace(SubSeq(s, 1, i - 1)))
                 end   == Atoi(TrimSpace(SubSeq(s, i + 1, Len(s))))
             IN  IF ~start.ok THEN NoRange
                 ELSE IF ~end.ok THEN NoRange
                 ELSE IF ~ValidatePortOK(start.val) THEN NoRange
                 ELSE IF ~ValidatePortOK(end.val) THEN NoRange
                 ELSE [ok |-> TRUE, pr |-> PortRange(start.val, end.val)]
        ELSE LET port == Atoi(s)
             IN  IF ~port.ok THEN NoRange
                 ELSE IF ~ValidatePortOK(port.val) THEN NoRange
                 ELSE [ok |-> TRUE, pr |-> PortRange(port.val, port.val)]

\* ParsePortRange (lines 131-167): SplitN(s, "-", 2) cuts at the first "-"
ParsePortRange(s0) ==
    LET s == TrimSpace(s0)
        i == IndexOf(s, "-")
    IN  IF i # 0
        THEN LET start == Atoi(TrimSpace(SubSeq(s, 1, i - 1)))
                 end   == Atoi(TrimSpace(SubSeq(s, i + 1, Len(s))))
             IN  IF ~start.ok THEN NoRange
                 ELSE IF ~end.ok THEN NoRange
                 ELSE IF ~ValidatePortOK(start.val) THEN NoRange
                 ELSE IF ~ValidatePortOK(end.val) THEN NoRange
                 ELSE IF start.val > end.val THEN NoRange
                 ELSE [ok |-> TRUE, pr |-> PortRange(start.val, end.val)]
        ELSE LET port == Atoi(s)
             IN  IF ~port.ok THEN NoRange
                 ELSE IF ~ValidatePortOK(port.val) THEN NoRange
                 ELSE [ok |-> TRUE, pr |-> PortRange(port.val, port.val)]

\* ParsePortRanges (lines 107-129): the parts between commas, empty parts
\* skipped; one bad part fails the whole
RECURSIVE ParseParts(_)
ParseParts(parts) ==
    IF parts = <<>> THEN [ok |-> TRUE, ranges |-> <<>>]
    ELSE LET part == TrimSpace(Head(parts))
             rest == ParseParts(Tail(parts))
         IN  IF part = <<>> THEN rest
             ELSE IF ~ParsePortRange(part).ok \/ ~rest.ok
                  THEN [ok |-> FALSE, ranges |-> <<>>]
                  ELSE [ok |-> TRUE,
                        ranges |-> <<ParsePortRange(part).pr>> \o rest.ranges]

ParsePortRanges(s) ==
    IF s = <<>> THEN [ok |-> TRUE, ranges |-> <<>>]
    ELSE ParseParts(StringsSplit(s, ","))

\* DefaultDenyPorts (lines 11-18) joined with "," as DefaultConfig and the
\* deny-ports flag do
DefaultDenyPortsText ==
    <<"2", "2", ",", "2", "5", ",", "1", "3", "5", "-", "1", "3", "9", ",",
      "4", "4", "5", ",", "3", "3", "8", "9", ",", "5", "9", "0", "0">>

\* DefaultConfig (lines 56-74) with the options the flags and the
\* environment set
DefaultOptions ==
    [ListenAddr |-> ":443",
     CertPath   |-> "./cert/localhost.pem",
     KeyPath    |-> "./cert/localhost-key.pem",
     SelfSigned |-> TRUE,
     DenyPorts  |-> ParsePortRanges(DefaultDenyPortsText).ranges,
     AllowRange |-> PortRange(1024, 65535),
     Verbose    |-> FALSE,
     AccessLog  |-> TRUE]

\* the value LoadFromEnv gives a boolean option
EnvBool(v) == v = "true" \/ v = "1"

\* Config.LoadFromEnv (lines 76-105); an unset variable is ""
LoadFromEnv(c, env) ==
    LET deny  == ParsePortRanges(env.DENY_PORTS)
        allow == ParsePortRanges(env.ALLOW_RANGE)
    IN  [ListenAddr |-> IF env.LISTEN # "" THEN env.LISTEN ELSE c.ListenAddr,
         CertPath   |-> IF env.CERT # "" THEN env.CERT ELSE c.CertPath,
         KeyPath    |-> IF env.KEY # "" THEN env.KEY ELSE c.KeyPath,
         SelfSigned |-> IF env.SELF_SIGNED # "" THEN EnvBool(env.SELF_SIGNED)
                        ELSE c.SelfSigned,
         DenyPorts  |-> IF env.DENY_PORTS # <<>> /\ deny.ok THEN deny.ranges
                        ELSE c.DenyPorts,
         AllowRange |-> IF env.ALLOW_RANGE # <<>> /\ allow.ok
                           /\ Len(allow.ranges) > 0
                        THEN allow.ranges[1] ELSE c.AllowRange,
         Verbose    |-> IF env.VERBOSE # "" THEN EnvBool(env.VERBOSE)
                        ELSE c.Verbose,
         AccessLog  |-> IF env.ACCESS_LOG # "" THEN EnvBool(env.ACCESS_LOG)
                        ELSE c.AccessLog]

---------------------------------------------------------------------------
(* internal/proxy: host resolution *)

\* the longest run of digits at the start of s (\d+ is greedy)
RECURSIVE DigitRun(_)
DigitRun(s) == IF s # <<>> /\ IsDigit(Head(s)) THEN 1 + DigitRun(Tail(s)) ELSE 0

HasPrefix(s, pre) == Len(pre) <= Len(s) /\ SubSeq(s, 1, Len(pre)) = pre

\* s matches (localhost|localtest\.me)(?::\d+)?$
DomainAndPort(s) ==
    \E dom \in {sLocalhost, sLocaltestMe} :
        /\ HasPrefix(s, dom)
        /\ \/ Len(s) = Len(dom)
           \/ /\ Len(s) >= Len(dom) + 2
              /\ s[Len(dom) + 1] = ":"
              /\ AllDigits(SubSeq(s, Len(dom) + 2, Len(s)))

\* the pattern without its ^ anchor: the digits may start after any prefix
FindStringSubmatch_Unanchored(host) ==
    LET starts == {b \in 1..Len(host) :
                     LET t == SubSeq(host, b, Len(host))
                         n == DigitRun(t)
                     IN  /\ n >= 1
                         /\ Len(t) >= n + 1
                         /\ t[n + 1] = "."
                         /\ DomainAndPort(SubSeq(t, n + 2, Len(t)))}
    IN  IF starts = {} THEN [ok |-> FALSE, group1 |-> <<>>]
        ELSE LET b == CHOOSE x \in starts : \A y \in starts : x <= y
                 t == SubSeq(host, b, Len(host))
             IN  [ok |-> TRUE, group1 |-> SubSeq(t, 1, DigitRun(t))]

\* hostPattern.FindStringSubmatch for
\*   hostPattern = ^(\d+)\.(localhost|localtest\.me)(?::\d+)?$
\* group 1 is the digit run at the start: it must be followed by "\.", so it
\* cannot end before the run does
FindStringSubmatch(host) ==
    LET n == DigitRun(host)
    IN  IF /\ n >= 1
           /\ Len(host) >= n + 1
           /\ host[n + 1] = "."
           /\ DomainAndPort(SubSeq(host, n + 2, Len(host)))
        THEN [ok |-> TRUE, group1 |-> SubSeq(host, 1, n)]
        ELSE [ok |-> FALSE, group1 |-> <<>>]

parseHost_NoRangeCheck(host) ==
    LET matches == FindStringSubmatch(host)
        a       == Atoi(matches.group1)
    IN  IF ~matches.ok
        THEN [ok |-> FALSE, port |-> 0,
              err |-> <<"invalid host format: ">> \o host]
        ELSE [ok |-> TRUE, port |-> a.val, err |-> <<>>]

parseHost(host) ==
    LET matches == FindStringSubmatch(host)
        a       == Atoi(matches.group1)
    IN  IF ~matches.ok
        THEN [ok |-> FALSE, port |-> 0,
              err |-> <<"invalid host format: ">> \o host]
        ELSE IF ~a.ok
        THEN [ok |-> FALSE, port |-> 0,
              err |-> <<"invalid port number: ">> \o matches.group1]
        ELSE IF ~ValidatePortOK(a.val)
        THEN [ok |-> FALSE, port |-> 0, err |-> ValidatePortError(a.val)]
        ELSE [ok |-> TRUE, port |-> a.val, err |-> <<>>]

---------------------------------------------------------------------------
(* Header text *)

Upper == <<"A", "B", "C", "D", "E", "F", "G", "H", "I", "J", "K", "L", "M",
           "N", "O", "P", "Q", "R", "S", "T", "U", "V", "W", "X", "Y", "Z">>
Lower == <<"a", "b", "c", "d", "e", "f", "g", "h", "i", "j", "k", "l", "m",
           "n", "o", "p", "q", "r", "s", "t", "u", "v", "w", "x", "y", "z">>

LowerChar(c) == IF \E i \in 1..26 : Upper[i] = c
                THEN Lower[CHOOSE i \in 1..26 : Upper[i] = c]
                ELSE c

\* strings.ToLower
ToLower(s) == [i \in 1..Len(s) |-> LowerChar(s[i])]

\* strings.Contains
StrContains(s, sub) ==
    \E b \in 1..(Len(s) + 1) :
        /\ b + Len(sub) - 1 <= Len(s)
        /\ SubSeq(s, b, b + Len(sub) - 1) = sub

sUpgradeLower == <<"u", "p", "g", "r", "a", "d", "e">>
sUpgrade == <<"U", "p", "g", "r", "a", "d", "e">>
sWebsocket == <<"w", "e", "b", "s", "o", "c", "k", "e", "t">>
sKeepAlive == <<"k", "e", "e", "p", "-", "a", "l", "i", "v", "e">>

isWebSocketRequest(in) ==
    LET connection == ToLower(in.connection)
        upgrade    == ToLower(in.upgrade)
    IN  StrContains(connection, sUpgradeLower) /\ upgrade = sWebsocket

---------------------------------------------------------------------------
(* The response: http.ResponseWriter and the responseWriter wrapper *)

StatusOK == 200
StatusBadRequest == 400
StatusForbidden == 403
StatusInternalServerError == 500
StatusBadGateway == 502

\* a nil error; a non-nil error has a text, and timeout tells whether it is
\* a net.Error whose Timeout() is true
NoError == [timeout |-> FALSE, text |-> <<>>]

\* what the connection's own http.ResponseWriter has sent to the client;
\* status 0: no header written yet; headerCalls: the WriteHeader calls
\* made on it
NewWriter ==
    [xRequestID |-> 0, contentType |-> "", status |-> 0, body |-> <<>>,
     headerCalls |-> 0]

\* the wrapper built at ServeHTTP line 90
NewResponseWriter ==
    [statusCode |-> StatusOK, bytesWritten |-> 0, err |-> NoError,
     wroteHeader |-> FALSE]

\* http.ResponseWriter.WriteHeader: the first status is the one sent
UWriteHeader(w, code) ==
    [w EXCEPT !.status = IF @ = 0 THEN code ELSE @, !.headerCalls = @ + 1]

\* http.ResponseWriter.Write: sends the header with 200 when none was
\* written, then the bytes
UWrite(w, b) ==
    [w EXCEPT !.status = IF @ = 0 THEN StatusOK ELSE @, !.body = @ \o b]

\* a wrapper that records and passes on every status
RWWriteHeader_Last(st, code) ==
    [w  |-> UWriteHeader(st.w, code),
     rw |-> [st.rw EXCEPT !.statusCode = code, !.wroteHeader = TRUE]]

\* responseWriter.WriteHeader; st = [w |-> the writer, rw |-> the wrapper]
RWWriteHeader(st, code) ==
    IF ~st.rw.wroteHeader
    THEN [w  |-> UWriteHeader(st.w, code),
          rw |-> [st.rw EXCEPT !.statusCode = code, !.wroteHeader = TRUE]]
    ELSE st

\* responseWriter.Write when the writer takes and reports the first n
\* bytes of b
RWWriteReported(st, b, n) ==
    LET st1 == IF ~st.rw.wroteHeader THEN RWWriteHeader(st, StatusOK) ELSE st
    IN  [w  |-> UWrite(st1.w, SubSeq(b, 1, n)),
         rw |-> [st1.rw EXCEPT !.bytesWritten = @ + n]]

\* responseWriter.Write; the writer reports Len(b) bytes written
RWWrite(st, b) == RWWriteReported(st, b, Len(b))

\* ErrorResponse, as json.Encoder writes it: one body chunk
ErrorResponse(errMsg, hint, example) ==
    [Error |-> errMsg, Hint |-> hint, Example |-> example]

\* writeJSONError without its WriteHeader call: the body goes out with 200
writeJSONError_NoStatus(w, statusCode, errMsg, hint, example) ==
    UWrite([w EXCEPT !.contentType = "application/json"],
           <<ErrorResponse(errMsg, hint, example)>>)

\* writeJSONError on the connection's own writer (handleError with w or
\* with w.ResponseWriter)
writeJSONError(w, statusCode, errMsg, hint, example) ==
    UWrite(UWriteHeader([w EXCEPT !.contentType = "application/json"],
                        statusCode),
           <<ErrorResponse(errMsg, hint, example)>>)

\* writeJSONError on the wrapper (the ErrorHandler's rw)
writeJSONErrorWrapped(st, statusCode, errMsg, hint, example) ==
    RWWrite(RWWriteHeader([st EXCEPT !.w.contentType = "application/json"],
                          statusCode),
            <<ErrorResponse(errMsg, hint, example)>>)

---------------------------------------------------------------------------
(* Requests *)

Reqs == 1..NReq

sColon443 == <<":", "4", "4", "3">>

\* the hosts the modelled clients ask for
hPort8000 == Itoa(8000) \o <<".">> \o sLocalhost

SampleHosts ==
    {hPort8000,
     Itoa(3000) \o <<".">> \o sLocaltestMe \o sColon443,
     Itoa(22) \o <<".">> \o sLocalhost,
     sExampleCom}

\* the requests the modelled clients send; hijackable: whether the
\* connection's ResponseWriter implements http.Hijacker
RequestShapes ==
    {[host |-> h, connection |-> <<>>, upgrade |-> <<>>, hijackable |-> TRUE]
        : h \in SampleHosts}
    \cup
    {[host |-> h, connection |-> sUpgrade, upgrade |-> sWebsocket,
      hijackable |-> TRUE] : h \in SampleHosts}
    \cup
    {[host |-> hPort8000, connection |-> sUpgrade, upgrade |-> sWebsocket,
      hijackable |-> FALSE]}

NoRequest ==
    [host |-> <<>>, connection |-> <<>>, upgrade |-> <<>>, hijackable |-> FALSE]

Loopback == "127.0.0.1"

\* no request was sent to a backend
NoOutbound ==
    [scheme |-> "", urlHost |-> <<>>, host |-> <<>>, xForwardedProto |-> "",
     xForwardedHost |-> <<>>, xRequestID |-> 0]

\* a request that has not arrived; budget: the bytes each peer of its
\* tunnel may send.  calls, conns and backendErr keep the history: the
\* functions called, the backend connections asked for, and the error the
\* round trip returned.
FreshRequest(pc0, budget) ==
    [pc |-> pc0, in |-> NoRequest, id |-> 0, port |-> 0,
     calls |-> <<>>, conns |-> <<>>, backendErr |-> NoError,
     w |-> NewWriter, rw |-> NewResponseWriter, wrapped |-> FALSE,
     transport |-> 0, logged |-> <<>>,
     hijacked |-> FALSE, backendConn |-> "none", clientConn |-> "none",
     clientBuf |-> <<>>, cIn |-> <<>>, cEnd |-> FALSE,
     bIn |-> <<>>, bEnd |-> FALSE,
     toBackend |-> <<>>, toClient |-> <<>>,
     clientSent |-> <<>>, backendSent |-> <<>>,
     loopB2C |-> "none", loopC2B |-> "none", wg |-> 0,
     cBudget |-> budget, bBudget |-> budget,
     outbound |-> NoOutbound]

\* a counter that is read and not advanced: what two unsynchronised
\* increments can both return
generateRequestID_Stale(gen) == gen

\* Server.generateRequestID: the counter part of the id
generateRequestID(gen) == gen + 1

\* line 264: fmt.Sprintf("%d-%d", time.Now().UnixNano(), id)
RequestIDText(now, id) == Itoa(now) \o <<"-">> \o Itoa(id)

\* a LogRequest that does not look at the access-log switch
LogRequest_IgnoreSwitch(c, q) ==
    Append(q.logged,
           [request_id |-> q.id, host |-> q.in.host,
            target_port |-> q.port, status |-> q.rw.statusCode,
            bytes |-> q.rw.bytesWritten, error |-> q.rw.err,
            msg |-> IF q.rw.err # NoError THEN "request failed"
                    ELSE "request completed"])

\* Logger.LogRequest: one record appended when access logging is on
LogRequest(c, q) ==
    IF ~c.AccessLog THEN q.logged
    ELSE Append(q.logged,
                [request_id |-> q.id, host |-> q.in.host,
                 target_port |-> q.port, status |-> q.rw.statusCode,
                 bytes |-> q.rw.bytesWritten, error |-> q.rw.err,
                 msg |-> IF q.rw.err # NoError THEN "request failed"
                         ELSE "request completed"])

\* ServeHTTP lines 72-88 with the policy check left out
Admit_NoPolicy(c, host) ==
    LET res == parseHost(host)
    IN  IF ~res.ok
        THEN [kind |-> "invalid", port |-> 0, status |-> StatusBadRequest,
              calls |-> <<"parseHost">>,
              errMsg |-> res.err,
              hint |-> <<"Use format: https://<port>.localhost">>,
              example |-> <<"https://8000.localhost">>]
        ELSE [kind |-> "admitted", port |-> res.port, status |-> 0,
              calls |-> <<"parseHost">>,
              errMsg |-> <<>>, hint |-> <<>>, example |-> <<>>]

\* an admission whose 403 tells which rule refused the port
Admit_TellRule(c, host) ==
    LET res == parseHost(host)
    IN  IF ~res.ok
        THEN [kind |-> "invalid", port |-> 0, status |-> StatusBadRequest,
              calls |-> <<"parseHost">>,
              errMsg |-> res.err,
              hint |-> <<"Use format: https://<port>.localhost">>,
              example |-> <<"https://8000.localhost">>]
        ELSE IF ~IsPortAllowed(c, res.port)
        THEN [kind |-> "denied", port |-> res.port, status |-> StatusForbidden,
              calls |-> <<"parseHost", "IsPortAllowed">>,
              errMsg |-> <<"Port ">> \o Itoa(res.port) \o <<" is not allowed">>,
              hint |-> IF DeniedFrom(c.DenyPorts, 1, res.port)
                       THEN <<"This port is denied">>
                       ELSE <<"This port is outside the allowed range">>,
              example |-> <<"https://8000.localhost">>]
        ELSE [kind |-> "admitted", port |-> res.port, status |-> 0,
              calls |-> <<"parseHost", "IsPortAllowed">>,
              errMsg |-> <<>>, hint |-> <<>>, example |-> <<>>]

\* ServeHTTP lines 72-88: resolution, then admission
Admit(c, host) ==
    LET res == parseHost(host)
    IN  IF ~res.ok
        THEN [kind |-> "invalid", port |-> 0, status |-> StatusBadRequest,
              calls |-> <<"parseHost">>,
              errMsg |-> res.err,
              hint |-> <<"Use format: https://<port>.localhost">>,
              example |-> <<"https://8000.localhost">>]
        ELSE IF ~IsPortAllowed(c, res.port)
        THEN [kind |-> "denied", port |-> res.port, status |-> StatusForbidden,
              calls |-> <<"parseHost", "IsPortAllowed">>,
              errMsg |-> <<"Port ">> \o Itoa(res.port) \o <<" is not allowed">>,
              hint |-> <<"This port is either denied or outside the allowed range">>,
              example |-> <<"https://8000.localhost">>]
        ELSE [kind |-> "admitted", port |-> res.port, status |-> 0,
              calls |-> <<"parseHost", "IsPortAllowed">>,
              errMsg |-> <<>>, hint |-> <<>>, example |-> <<>>]

\* ServeHTTP up to the dispatch (lines 64-96): the id, the X-Request-ID
\* header, resolution and admission; a rejected request is answered and
\* the handler returns, an admitted one enters handleHTTP or
\* handleWebSocket.  Requests are numbered in the order of their arrival.
ServeHTTP(r) ==
    /\ rq[r].pc = "idle"
    /\ \A earlier \in 1..(r - 1) : rq[earlier].pc # "idle"
    /\ \E in \in RequestShapes :
        LET id == generateRequestID(requestIDGen)
            w0 == [NewWriter EXCEPT !.xRequestID = id]
            a  == Admit(cfg, in.host)
            q0 == [rq[r] EXCEPT !.in = in, !.id = id, !.w = w0,
                                !.port = a.port, !.calls = a.calls]
        IN  /\ requestIDGen' = id
            /\ rq' = [rq EXCEPT ![r] =
                 IF a.kind # "admitted"
                 THEN [q0 EXCEPT
                         !.pc = "done",
                         !.w = writeJSONError(w0, a.status, a.errMsg,
                                              a.hint, a.example)]
                 ELSE IF isWebSocketRequest(in)
                 THEN [q0 EXCEPT
                         !.pc = "ws_dial", !.wrapped = TRUE,
                         !.calls = @ \o <<"isWebSocketRequest",
                                          "handleWebSocket">>]
                 ELSE [q0 EXCEPT
                         !.pc = "http", !.wrapped = TRUE,
                         !.calls = @ \o <<"isWebSocketRequest",
                                          "handleHTTP">>]]
    /\ UNCHANGED <<cfg, transportPool, transportsMade, probe>>

---------------------------------------------------------------------------
(* handleHTTP *)

\* a target that is the same whatever the port of the request
BackendAddr_Fixed(port) == <<Loopback, ":", "8", "0", "0", "0">>

\* fmt.Sprintf("127.0.0.1:%d", port), the host of the target URL and the
\* address of the raw dial
BackendAddr(port) == <<Loopback, ":">> \o Itoa(port)

\* sync.Pool.Get that hands the transport out and leaves it in the pool
PoolGet_Peek(pool, t) == pool

\* sync.Pool.Get: the transport leaves the pool
PoolGet(pool, t) == pool \ {t}

\* a Put that loses the transport
PoolPut_Drop(pool, t) == pool

\* sync.Pool.Put
PoolPut(pool, t) == pool \cup {t}

\* the errors RoundTrip and net.DialTimeout return
BackendErrors ==
    {[timeout |-> FALSE, text |-> <<"dial tcp: connect: ", "connection refused">>],
     [timeout |-> TRUE,  text |-> <<"dial tcp: ", "i/o timeout">>],
     [timeout |-> TRUE,  text |-> <<"connection refused", " (", "i/o timeout", ")">>],
     [timeout |-> FALSE, text |-> <<"EOF">>]}

\* the body a backend answers with: it names the address it listens on
BackendBody(addr) == <<"from ">> \o addr

\* what RoundTrip returns for a request sent to addr: the response of the
\* backend that listens there and a nil error, or an error
RoundTripResults(addr) ==
    {[err |-> NoError, status |-> 200, body |-> BackendBody(addr)],
     [err |-> NoError, status |-> 404, body |-> <<>>]}
    \cup {[err |-> e, status |-> 0, body |-> <<>>] : e \in BackendErrors}

\* a Director that leaves the Host of the outbound request at the target
Director_RewriteHost(q) ==
    [scheme |-> "http", urlHost |-> BackendAddr(q.port),
     host |-> BackendAddr(q.port), xForwardedProto |-> "https",
     xForwardedHost |-> q.in.host, xRequestID |-> q.id]

\* the Director (lines 128-149): the outbound request goes to the target
\* URL with the inbound Host and the forwarding headers
Director(q) ==
    [scheme |-> "http", urlHost |-> BackendAddr(q.port),
     host |-> q.in.host, xForwardedProto |-> "https",
     xForwardedHost |-> q.in.host, xRequestID |-> q.id]

\* strings.Contains(err.Error(), "connection refused")
MentionsRefused(err) == \E i \in 1..Len(err.text) : err.text[i] = "connection refused"

\* the ErrorHandler's choice with the two tests in the other order
ErrorClass_RefusedFirst(err, port) ==
    IF MentionsRefused(err)
    THEN [errMsg |-> <<"Connection refused">>,
          hint |-> <<"No service is listening on port ">> \o Itoa(port)]
    ELSE IF err.timeout
    THEN [errMsg |-> <<"Request timed out">>,
          hint |-> <<"The backend service took too long to respond">>]
    ELSE [errMsg |-> <<"Backend service unavailable">>,
          hint |-> <<"Make sure a service is running on port ">> \o Itoa(port)]

\* the ErrorHandler's choice of message and hint (lines 155-164)
ErrorClass(err, port) ==
    IF err.timeout
    THEN [errMsg |-> <<"Request timed out">>,
          hint |-> <<"The backend service took too long to respond">>]
    ELSE IF MentionsRefused(err)
    THEN [errMsg |-> <<"Connection refused">>,
          hint |-> <<"No service is listening on port ">> \o Itoa(port)]
    ELSE [errMsg |-> <<"Backend service unavailable">>,
          hint |-> <<"Make sure a service is running on port ">> \o Itoa(port)]

\* the ErrorHandler (lines 151-167): w.err = err, then the 502 through the
\* wrapper
ErrorHandler(st, port, err) ==
    LET c == ErrorClass(err, port)
    IN  writeJSONErrorWrapped([st EXCEPT !.rw.err = err], StatusBadGateway,
                              c.errMsg, c.hint, <<>>)

\* ReverseProxy relays the backend's response through the wrapper
RelayResponse(st, resp) ==
    LET st1 == RWWriteHeader(st, resp.status)
    IN  IF resp.body = <<>> THEN st1 ELSE RWWrite(st1, resp.body)

\* handleHTTP lines 121-175 up to the round trip: a transport is checked
\* out (one from the pool, or a new one), the Director points the request
\* at the target, and RoundTrip connects to it
HTTPBegin(r) ==
    /\ rq[r].pc = "http"
    /\ \E t \in transportPool \cup {transportsMade + 1} :
        /\ transportPool' = PoolGet(transportPool, t)
        /\ transportsMade' = IF t \in transportPool THEN transportsMade
                             ELSE transportsMade + 1
        /\ rq' = [rq EXCEPT ![r].pc = "http_rt",
                            ![r].transport = t,
                            ![r].outbound = Director(rq[r]),
                            ![r].calls = Append(@, "RoundTrip"),
                            ![r].conns = Append(@, [via |-> "RoundTrip",
                                                    addr |-> Director(rq[r]).urlHost])]
    /\ UNCHANGED <<cfg, requestIDGen, probe>>

\* the round trip ends: the response is relayed or the ErrorHandler
\* answers; handleHTTP returns, the deferred Put runs, and ServeHTTP logs
\* the request (lines 98-99)
HTTPEnd(r) ==
    /\ rq[r].pc = "http_rt"
    /\ \E out \in RoundTripResults(rq[r].outbound.urlHost) :
        LET st0 == [w |-> rq[r].w, rw |-> rq[r].rw]
            st1 == IF out.err # NoError
                   THEN ErrorHandler(st0, rq[r].port, out.err)
                   ELSE RelayResponse(st0, out)
            q1  == [rq[r] EXCEPT !.w = st1.w, !.rw = st1.rw,
                                 !.backendErr = out.err,
                                 !.transport = 0, !.pc = "done"]
        IN  rq' = [rq EXCEPT ![r] = [q1 EXCEPT !.logged = LogRequest(cfg, q1)]]
    /\ transportPool' = PoolPut(transportPool, rq[r].transport)
    /\ UNCHANGED <<cfg, transportsMade, requestIDGen, probe>>

---------------------------------------------------------------------------
(* handleWebSocket *)

\* the bytes the peers of a tunnel send
Bytes == {"h", "i"}

\* the byte strings of at most n bytes
BytesUpTo(n) == UNION {[1..k -> Bytes] : k \in 0..n}

\* handleWebSocket returns and ServeHTTP logs the request (lines 98-99)
Finish(c, q) ==
    LET q1 == [q EXCEPT !.pc = "done"]
    IN  [q1 EXCEPT !.logged = LogRequest(c, q1)]

\* the dial path with the takeover done before the dial: the 502 can no
\* longer be written to a connection that was taken over
WSDialFailed_HijackFirst(c, q) ==
    Finish(c, [q EXCEPT
        !.calls = @ \o <<"Hijack", "DialTimeout err">>,
        !.hijacked = TRUE, !.clientConn = "closed",
        !.conns = Append(@, [via |-> "Dial", addr |-> BackendAddr(q.port)])])

\* lines 181-190: the dial fails, the 502 goes to w.ResponseWriter
WSDialFailed(c, q) ==
    Finish(c, [q EXCEPT
        !.calls = @ \o <<"DialTimeout err">>,
        !.conns = Append(@, [via |-> "Dial", addr |-> BackendAddr(q.port)]),
        !.w = writeJSONError(q.w, StatusBadGateway,
                  <<"Failed to connect to backend">>,
                  <<"Make sure a service is running on port ">> \o Itoa(q.port),
                  <<>>)])

\* the handler gives up on a writer that is no http.Hijacker without
\* answering
WSNoHijacker_NoAnswer(c, q) ==
    Finish(c, [q EXCEPT
        !.calls = @ \o <<"DialTimeout ok">>,
        !.conns = Append(@, [via |-> "Dial", addr |-> BackendAddr(q.port)]),
        !.backendConn = "closed"])

\* lines 191-200: the writer is no http.Hijacker
WSNoHijacker(c, q) ==
    Finish(c, [q EXCEPT
        !.calls = @ \o <<"DialTimeout ok">>,
        !.conns = Append(@, [via |-> "Dial", addr |-> BackendAddr(q.port)]),
        !.backendConn = "closed",
        !.w = writeJSONError(q.w, StatusInternalServerError,
                  <<"WebSocket hijacking not supported">>, <<>>, <<>>)])

\* a handler that returns from a failed Hijack without closing the
\* backend connection
WSHijackFailed_NoClose(c, q) ==
    Finish(c, [q EXCEPT
        !.calls = @ \o <<"DialTimeout ok", "Hijack">>,
        !.conns = Append(@, [via |-> "Dial", addr |-> BackendAddr(q.port)]),
        !.backendConn = "open",
        !.w = writeJSONError(q.w, StatusInternalServerError,
                  <<"Failed to hijack connection">>, <<>>, <<>>)])

\* lines 202-210: Hijack returns an error
WSHijackFailed(c, q) ==
    Finish(c, [q EXCEPT
        !.calls = @ \o <<"DialTimeout ok", "Hijack">>,
        !.conns = Append(@, [via |-> "Dial", addr |-> BackendAddr(q.port)]),
        !.backendConn = "closed",
        !.w = writeJSONError(q.w, StatusInternalServerError,
                  <<"Failed to hijack connection">>, <<>>, <<>>)])

\* lines 211-216: the request cannot be replayed to the backend
WSReplayFailed(c, q) ==
    Finish(c, [q EXCEPT
        !.calls = @ \o <<"DialTimeout ok", "Hijack", "r.Write">>,
        !.conns = Append(@, [via |-> "Dial", addr |-> BackendAddr(q.port)]),
        !.hijacked = TRUE,
        !.backendConn = "closed", !.clientConn = "closed"])

\* lines 211-234: the request head is replayed and the two copy loops are
\* started; buf is what the client had sent by the time of the takeover
WSEstablished(q, buf) ==
    [q EXCEPT
        !.pc = "tunnel",
        !.calls = @ \o <<"DialTimeout ok", "Hijack", "r.Write">>,
        !.conns = Append(@, [via |-> "Dial", addr |-> BackendAddr(q.port)]),
        !.hijacked = TRUE,
        !.backendConn = "open", !.clientConn = "open",
        !.toBackend = <<"HEAD">>,
        !.clientBuf = buf, !.clientSent = buf, !.cBudget = @ - Len(buf),
        !.loopB2C = "run", !.loopC2B = "buf", !.wg = 2]

\* handleWebSocket from the dial to the start of the copy loops
WSConnect(r) ==
    /\ rq[r].pc = "ws_dial"
    /\ \/ rq' = [rq EXCEPT ![r] = WSDialFailed(cfg, rq[r])]
       \/ /\ ~rq[r].in.hijackable
          /\ rq' = [rq EXCEPT ![r] = WSNoHijacker(cfg, rq[r])]
       \/ /\ rq[r].in.hijackable
          /\ rq' = [rq EXCEPT ![r] = WSHijackFailed(cfg, rq[r])]
       \/ /\ rq[r].in.hijackable
          /\ rq' = [rq EXCEPT ![r] = WSReplayFailed(cfg, rq[r])]
       \/ /\ rq[r].in.hijackable
          /\ \E buf \in BytesUpTo(rq[r].cBudget) :
                rq' = [rq EXCEPT ![r] = WSEstablished(rq[r], buf)]
    /\ UNCHANGED <<cfg, transportPool, transportsMade, requestIDGen, probe>>

\* a copy loop returns: it closes its destination, then wg.Done()
ExitB2C_NoClose(q) ==
    [q EXCEPT !.loopB2C = "done", !.wg = @ - 1]

\* lines 222-224: clientConn.Close(), then the deferred wg.Done()
ExitB2C(q) ==
    [q EXCEPT !.clientConn = "closed", !.loopB2C = "done", !.wg = @ - 1]

\* lines 228, 233: backendConn.Close(), then the deferred wg.Done()
ExitC2B(q) ==
    [q EXCEPT !.backendConn = "closed", !.loopC2B = "done", !.wg = @ - 1]

\* one round of io.Copy(clientConn, backendConn), line 223: Read returns
\* an error (the connection was closed here), k bytes, or end-of-stream;
\* the bytes read are written to the client.  A write to a connection
\* closed here fails; a write to a client that has gone either fails
\* (fail) or is accepted and lost.
CopyB2C(q, k, fail) ==
    IF q.backendConn = "closed" THEN ExitB2C(q)
    ELSE IF q.bIn # <<>>
    THEN LET data == SubSeq(q.bIn, 1, k)
             q1   == [q EXCEPT !.bIn = SubSeq(@, k + 1, Len(@))]
         IN  IF q.clientConn = "closed" THEN ExitB2C(q1)
             ELSE IF q.cEnd THEN (IF fail THEN ExitB2C(q1) ELSE q1)
             ELSE [q1 EXCEPT !.toClient = @ \o data]
    ELSE ExitB2C(q)

\* one round of io.Copy(backendConn, clientConn), line 232
CopyC2B(q, k, fail) ==
    IF q.clientConn = "closed" THEN ExitC2B(q)
    ELSE IF q.cIn # <<>>
    THEN LET data == SubSeq(q.cIn, 1, k)
             q1   == [q EXCEPT !.cIn = SubSeq(@, k + 1, Len(@))]
         IN  IF q.backendConn = "closed" THEN ExitC2B(q1)
             ELSE IF q.bEnd THEN (IF fail THEN ExitC2B(q1) ELSE q1)
             ELSE [q1 EXCEPT !.toBackend = @ \o data]
    ELSE ExitC2B(q)

\* the buffered bytes are forgotten instead of being copied
FlushBuffered_Skip(q) ==
    [q EXCEPT !.clientBuf = <<>>, !.loopC2B = "run"]

\* the buffered bytes are copied twice
FlushBuffered_Twice(q) ==
    LET q1 == [q EXCEPT !.clientBuf = <<>>, !.loopC2B = "run"]
    IN  IF Len(q.clientBuf) > 0 /\ q.backendConn = "open" /\ ~q.bEnd
        THEN [q1 EXCEPT !.toBackend = @ \o q.clientBuf \o q.clientBuf]
        ELSE q1

\* lines 229-231: the bytes buffered before the takeover go to the backend
\* first; the result of io.CopyN is not looked at
FlushBuffered(q) ==
    LET q1 == [q EXCEPT !.clientBuf = <<>>, !.loopC2B = "run"]
    IN  IF Len(q.clientBuf) > 0 /\ q.backendConn = "open" /\ ~q.bEnd
        THEN [q1 EXCEPT !.toBackend = @ \o q.clientBuf]
        ELSE q1

MaxOf(a, b) == IF a > b THEN a ELSE b

\* the goroutine of lines 221-225
LoopB2C(r) ==
    /\ rq[r].pc = "tunnel"
    /\ rq[r].loopB2C = "run"
    /\ rq[r].backendConn = "closed" \/ rq[r].bIn # <<>> \/ rq[r].bEnd
    /\ \E k \in 1..MaxOf(1, Len(rq[r].bIn)), fail \in BOOLEAN :
          rq' = [rq EXCEPT ![r] = CopyB2C(rq[r], k, fail)]
    /\ UNCHANGED <<cfg, transportPool, transportsMade, requestIDGen, probe>>

\* the goroutine of lines 227-234, before io.Copy
LoopC2BFlush(r) ==
    /\ rq[r].pc = "tunnel"
    /\ rq[r].loopC2B = "buf"
    /\ rq' = [rq EXCEPT ![r] = FlushBuffered(rq[r])]
    /\ UNCHANGED <<cfg, transportPool, transportsMade, requestIDGen, probe>>

\* the goroutine of lines 227-234, in io.Copy
LoopC2B(r) ==
    /\ rq[r].pc = "tunnel"
    /\ rq[r].loopC2B = "run"
    /\ rq[r].clientConn = "closed" \/ rq[r].cIn # <<>> \/ rq[r].cEnd
    /\ \E k \in 1..MaxOf(1, Len(rq[r].cIn)), fail \in BOOLEAN :
          rq' = [rq EXCEPT ![r] = CopyC2B(rq[r], k, fail)]
    /\ UNCHANGED <<cfg, transportPool, transportsMade, requestIDGen, probe>>

\* wg.Wait() that lets the handler go on while one loop still runs
WaitReturns_AfterOne(q) == q.wg <= 1

\* wg.Wait(), line 236
WaitReturns(q) == q.wg = 0

\* handleWebSocket returns after wg.Wait(): the deferred Close calls run,
\* and ServeHTTP logs the request
WSWait(r) ==
    /\ rq[r].pc = "tunnel"
    /\ WaitReturns(rq[r])
    /\ rq' = [rq EXCEPT ![r] =
                Finish(cfg, [rq[r] EXCEPT !.clientConn = "closed",
                                          !.backendConn = "closed"])]
    /\ UNCHANGED <<cfg, transportPool, transportsMade, requestIDGen, probe>>

---------------------------------------------------------------------------
(* The peers of a tunnel *)

\* the client closes its end, or its connection breaks
ClientClose(r) ==
    /\ rq[r].pc = "tunnel"
    /\ rq[r].clientConn = "open"
    /\ ~rq[r].cEnd
    /\ rq' = [rq EXCEPT ![r].cEnd = TRUE]
    /\ UNCHANGED <<cfg, transportPool, transportsMade, requestIDGen, probe>>

\* the backend closes its end, or its connection breaks
BackendClose(r) ==
    /\ rq[r].pc = "tunnel"
    /\ rq[r].backendConn = "open"
    /\ ~rq[r].bEnd
    /\ rq' = [rq EXCEPT ![r].bEnd = TRUE]
    /\ UNCHANGED <<cfg, transportPool, transportsMade, requestIDGen, probe>>

\* the client sends one byte
ClientSend(r) ==
    /\ rq[r].pc = "tunnel"
    /\ rq[r].clientConn = "open"
    /\ ~rq[r].cEnd
    /\ rq[r].cBudget > 0
    /\ \E b \in Bytes :
          rq' = [rq EXCEPT ![r].cIn = Append(@, b),
                           ![r].clientSent = Append(@, b),
                           ![r].cBudget = @ - 1]
    /\ UNCHANGED <<cfg, transportPool, transportsMade, requestIDGen, probe>>

\* the backend sends one byte
BackendSend(r) ==
    /\ rq[r].pc = "tunnel"
    /\ rq[r].backendConn = "open"
    /\ ~rq[r].bEnd
    /\ rq[r].bBudget > 0
    /\ \E b \in Bytes :
          rq' = [rq EXCEPT ![r].bIn = Append(@, b),
                           ![r].backendSent = Append(@, b),
                           ![r].bBudget = @ - 1]
    /\ UNCHANGED <<cfg, transportPool, transportsMade, requestIDGen, probe>>

---------------------------------------------------------------------------
(* The server *)

NoProbe == [kind |-> "none"]

\* the configurations the modelled server is started with
StartupConfigs ==
    {DefaultConfig,
     [DenyPorts  |-> <<PortRange(2000, 3999)>>,
      AllowRange |-> PortRange(1024, 9000),
      AccessLog  |-> TRUE]}

\* NewServer: an empty pool, the id counter at zero; no request has come
Init ==
    /\ cfg \in StartupConfigs
    /\ rq = [r \in Reqs |-> FreshRequest("idle", 0)]
    /\ transportPool = {}
    /\ transportsMade = 0
    /\ requestIDGen = 0
    /\ probe = NoProbe

Handler(r) ==
    \/ ServeHTTP(r)
    \/ HTTPBegin(r)
    \/ HTTPEnd(r)
    \/ WSConnect(r)
    \/ LoopB2C(r)
    \/ LoopC2BFlush(r)
    \/ LoopC2B(r)
    \/ WSWait(r)

Next ==
    \E r \in Reqs :
        \/ Handler(r)
        \/ ClientClose(r)
        \/ BackendClose(r)

Spec == Init /\ [][Next]_vars

---------------------------------------------------------------------------
(* One request whose tunnel carries bytes *)

InitTunnel ==
    /\ cfg = DefaultConfig
    /\ rq = [r \in Reqs |-> IF r = 1 THEN FreshRequest("idle", MaxPayload)
                            ELSE FreshRequest("unused", 0)]
    /\ transportPool = {}
    /\ transportsMade = 0
    /\ requestIDGen = 0
    /\ probe = NoProbe

NextTunnel ==
    \/ Handler(1)
    \/ ClientClose(1)
    \/ BackendClose(1)
    \/ ClientSend(1)
    \/ BackendSend(1)

SpecTunnel == InitTunnel /\ [][NextTunnel]_vars

\* a goroutine that can run is run: the copy loops and the handler waiting
\* for them are not starved
SpecTunnelFair ==
    /\ SpecTunnel
    /\ WF_vars(LoopB2C(1))
    /\ WF_vars(LoopC2BFlush(1))
    /\ WF_vars(LoopC2B(1))
    /\ WF_vars(WSWait(1))

---------------------------------------------------------------------------
(* IsPortAllowed applied on its own *)

PolicyRanges ==
    {PortRange(a, b) : a \in 1..MaxPolicyPort, b \in 1..MaxPolicyPort} \cap
    {pr \in [Start : 1..MaxPolicyPort, End : 1..MaxPolicyPort] : pr.Start <= pr.End}

\* every policy of at most two deny ranges over the small ports, and the
\* configurations the server is started with
PolicyInputs ==
    {[DenyPorts |-> d, AllowRange |-> a, AccessLog |-> TRUE] :
        d \in {<<>>} \cup {<<x>> : x \in PolicyRanges}
                     \cup {<<x, y>> : x \in PolicyRanges, y \in PolicyRanges},
        a \in PolicyRanges}
    \cup StartupConfigs

PolicyPorts ==
    (0..(MaxPolicyPort + 1)) \cup
    {22, 25, 80, 134, 135, 137, 139, 140, 443, 445, 1023, 1024, 1999, 2000,
     3000, 3389, 3999, 4000, 5900, 8000, 9000, 9001, 65535, 65536}

InitPolicy ==
    /\ cfg \in PolicyInputs
    /\ probe \in [kind : {"port"}, port : PolicyPorts, applied : {FALSE},
                  allowed : {FALSE}]
    /\ rq = [r \in Reqs |-> FreshRequest("unused", 0)]
    /\ transportPool = {}
    /\ transportsMade = 0
    /\ requestIDGen = 0

CheckPort ==
    /\ probe.kind = "port"
    /\ ~probe.applied
    /\ probe' = [probe EXCEPT !.applied = TRUE,
                              !.allowed = IsPortAllowed(cfg, probe.port)]
    /\ UNCHANGED <<cfg, rq, transportPool, transportsMade, requestIDGen>>

SpecPolicy == InitPolicy /\ [][CheckPort]_vars

---------------------------------------------------------------------------
(* parseHost applied on its own *)

\* numbers used as port labels: the small ones and those next to the
\* limits of each number of digits and of the valid ports
HostNumbers ==
    (0..MaxSmallPort) \cup
    {99, 100, 999, 1000, 1023, 1024, 8000, 9999, 10000, 65534, 65535, 65536,
     65537, 99999, 100000, 655350, 9999999}

\* labels that are no decimal numbers
TextLabels ==
    {<<>>, <<"a", "b", "c">>, <<"-", "1">>, <<"+", "1">>, <<"8", "0", "o">>}

HostPrefixes == {<<>>, <<"a", "p", "p", ".">>, <<"8", "0", ".">>}

HostDomains == {sLocalhost, sLocaltestMe, sExampleCom, <<>>,
                sLocalhost \o <<".", "c", "o", "m">>}

HostSuffixes == {<<>>, sColon443, <<":">>, <<":", "x">>, <<"/">>}

\* a host put together from its parts; numeric: the label is n in
\* decimal, after pad zeros
HostProbe(pre, numeric, n, pad, text, dot, dom, suffix) ==
    LET label == IF numeric THEN [i \in 1..pad |-> "0"] \o Itoa(n) ELSE text
    IN  [kind |-> "host", pre |-> pre, numeric |-> numeric, n |-> n,
         pad |-> pad, label |-> label, dot |-> dot, dom |-> dom,
         suffix |-> suffix,
         host |-> pre \o label \o dot \o dom \o suffix,
         applied |-> FALSE, out |-> parseHost(<<>>)]

\* the sample numbers and labels in every arrangement
HostProbes ==
    {HostProbe(pre, TRUE, n, pad, <<>>, dot, dom, suffix) :
        pre \in HostPrefixes, n \in HostNumbers, pad \in 0..1,
        dot \in {<<".">>, <<>>}, dom \in HostDomains, suffix \in HostSuffixes}
    \cup
    {p \in {HostProbe(pre, FALSE, 0, 0, text, dot, dom, suffix) :
                pre \in HostPrefixes, text \in TextLabels,
                dot \in {<<".">>, <<>>}, dom \in HostDomains,
                suffix \in HostSuffixes} :
        \* a prefix right before the domain would be the port label itself
        ~(p.pre # <<>> /\ p.label = <<>> /\ p.dot = <<>>)}

\* the hosts <n>.localhost and <n>.localtest.me, with and without a port
\* suffix
IsSweepProbe(p) ==
    /\ p.kind = "host" /\ p.numeric /\ p.pre = <<>> /\ p.pad = 0
    /\ p.dot = <<".">>
    /\ p.dom \in {sLocalhost, sLocaltestMe}
    /\ p.suffix \in {<<>>, sColon443}

InitHost ==
    /\ probe \in HostProbes
    /\ cfg = DefaultConfig
    /\ rq = [r \in Reqs |-> FreshRequest("unused", 0)]
    /\ transportPool = {}
    /\ transportsMade = 0
    /\ requestIDGen = 0

ResolveHost ==
    /\ probe.kind = "host"
    /\ ~probe.applied
    /\ probe' = [probe EXCEPT !.applied = TRUE, !.out = parseHost(probe.host)]
    /\ UNCHANGED <<cfg, rq, transportPool, transportsMade, requestIDGen>>

\* the sweep goes on to the next port number, up to MaxPort + 2
SweepHost ==
    /\ IsSweepProbe(probe)
    /\ probe.applied
    /\ probe.n < MaxPort + 2
    /\ probe' = HostProbe(<<>>, TRUE, probe.n + 1, 0, <<>>, <<".">>,
                          probe.dom, probe.suffix)
    /\ UNCHANGED <<cfg, rq, transportPool, transportsMade, requestIDGen>>

NextHost == ResolveHost \/ SweepHost

SpecHost == InitHost /\ [][NextHost]_vars

---------------------------------------------------------------------------
(* generateRequestID called by concurrent handlers *)

\* the ids issued by one Server
MaxIds == 4

\* the readings of the clock
MaxClock == 100

\* pending: the counter values taken by handlers that have not yet read
\* the clock; issued: the ids in the order they were formatted
InitIds ==
    /\ probe = [kind |-> "ids", clock |-> 1, pending |-> <<>>, issued |-> <<>>]
    /\ cfg = DefaultConfig
    /\ rq = [r \in Reqs |-> FreshRequest("unused", 0)]
    /\ transportPool = {}
    /\ transportsMade = 0
    /\ requestIDGen = 0

\* line 263: s.requestIDGen.Add(1), one atomic step
IDAdd ==
    /\ probe.kind = "ids"
    /\ Len(probe.pending) + Len(probe.issued) < MaxIds
    /\ LET id == generateRequestID(requestIDGen)
       IN  /\ requestIDGen' = id
           /\ probe' = [probe EXCEPT !.pending = Append(@, id)]
    /\ UNCHANGED <<cfg, rq, transportPool, transportsMade>>

\* line 264: any handler that holds a counter value reads the clock and
\* formats its id
IDFormat ==
    /\ probe.kind = "ids"
    /\ \E i \in 1..Len(probe.pending) :
          probe' = [probe EXCEPT
              !.pending = SubSeq(@, 1, i - 1) \o SubSeq(@, i + 1, Len(@)),
              !.issued = Append(@, RequestIDText(probe.clock, probe.pending[i]))]
    /\ UNCHANGED <<cfg, rq, transportPool, transportsMade, requestIDGen>>

\* time passes; between two ticks all readings of the clock are the same
Tick ==
    /\ probe.kind = "ids"
    /\ probe.clock < MaxClock
    /\ probe' = [probe EXCEPT !.clock = @ * 10 + 1]
    /\ UNCHANGED <<cfg, rq, transportPool, transportsMade, requestIDGen>>

NextIds == IDAdd \/ IDFormat \/ Tick

SpecIds == InitIds /\ [][NextIds]_vars

---------------------------------------------------------------------------
(* isWebSocketRequest applied on its own *)

\* Connection headers: a word, alone, after another token, or inside a
\* longer word
ConnectionWords == {<<>>, sUpgrade, sUpgradeLower, <<"U", "P", "G", "R", "A", "D", "E">>, <<"c", "l", "o", "s", "e">>}

ConnectionBefore == {<<>>, sKeepAlive \o <<",", " ">>, <<"c", "l", "o", "s", "e", ",">>, <<"x", "-">>}

ConnectionAfter == {<<>>, <<",">> \o sKeepAlive, <<"d">>, <<" ">>}

ConnectionHeaders ==
    {b \o w \o a : b \in ConnectionBefore, w \in ConnectionWords,
                   a \in ConnectionAfter}

UpgradeHeaders ==
    {<<>>, sWebsocket, <<"W", "e", "b", "S", "o", "c", "k", "e", "t">>, <<"W", "E", "B", "S", "O", "C", "K", "E", "T">>, <<"h", "2", "c">>, sWebsocket \o <<"s">>}

InitUpgrade ==
    /\ probe \in {[kind |-> "upgrade",
                   in |-> [host |-> hPort8000, connection |-> c, upgrade |-> u,
                           hijackable |-> TRUE],
                   applied |-> FALSE, out |-> FALSE] :
                    c \in ConnectionHeaders, u \in UpgradeHeaders}
    /\ cfg = DefaultConfig
    /\ rq = [r \in Reqs |-> FreshRequest("unused", 0)]
    /\ transportPool = {}
    /\ transportsMade = 0
    /\ requestIDGen = 0

\* line 92: the request is classified
Classify ==
    /\ probe.kind = "upgrade"
    /\ ~probe.applied
    /\ probe' = [probe EXCEPT !.applied = TRUE,
                              !.out = isWebSocketRequest(probe.in)]
    /\ UNCHANGED <<cfg, rq, transportPool, transportsMade, requestIDGen>>

SpecUpgrade == InitUpgrade /\ [][Classify]_vars

---------------------------------------------------------------------------
(* internal/tls: LoadOrGenerateCert *)

\* the identities (CA and leaf) that are generated
MaxIdentities == 4

\* the files at the certificate path, the key path and <dir>/ca.pem.  The
\* number of an identity stands for its PEM block; 0: no valid block
NoFiles ==
    [cert |-> [exists |-> FALSE, leaf |-> 0, ca |-> 0],
     key  |-> [exists |-> FALSE, key |-> 0],
     ca   |-> [exists |-> FALSE, ca |-> 0]]

\* fileExists (lines 196-199)
fileExists(f) == f.exists

\* tls.LoadX509KeyPair: the first certificate of the certificate file and
\* the private key of the key file must belong together
LoadX509KeyPair(files) ==
    /\ files.cert.exists /\ files.key.exists
    /\ files.cert.leaf # 0
    /\ files.key.key = files.cert.leaf

\* loadCertificates (lines 43-50)
loadCertificates(files, made) ==
    IF LoadX509KeyPair(files)
    THEN [files |-> files, made |-> made, ok |-> TRUE, how |-> "loaded",
          identity |-> files.cert.leaf, hit |-> "none"]
    ELSE [files |-> files, made |-> made, ok |-> FALSE, how |-> "error",
          identity |-> 0, hit |-> "none"]

\* the steps of generateSelfSignedCert that can fail, in their order
FailPoints ==
    <<"mkdir", "crypto", "openCert", "writeLeaf", "writeCA", "openKey",
      "writeKey", "openCAFile", "writeCAFile">>

\* the place of a step in that order; "none" comes after them all
FailAt(fail) ==
    IF fail = "none" THEN Len(FailPoints) + 1
    ELSE CHOOSE i \in 1..Len(FailPoints) : FailPoints[i] = fail

\* a generator that never writes the sibling CA file
generateSelfSignedCert_NoCAFile(files, made, fail) ==
    LET k  == FailAt(fail)
        n  == made + 1
        cert == IF k <= 3 THEN files.cert
                ELSE [exists |-> TRUE,
                      leaf |-> IF k >= 5 THEN n ELSE 0,
                      ca   |-> IF k >= 6 THEN n ELSE 0]
        key  == IF k <= 6 THEN files.key
                ELSE [exists |-> TRUE, key |-> IF k >= 8 THEN n ELSE 0]
        out  == [cert |-> cert, key |-> key, ca |-> files.ca]
        made1 == IF k >= 3 THEN n ELSE made
    IN  IF fail = "none" /\ LoadX509KeyPair(out)
        THEN [files |-> out, made |-> made1, ok |-> TRUE, how |-> "generated",
              identity |-> out.cert.leaf, hit |-> "none"]
        ELSE [files |-> out, made |-> made1, ok |-> FALSE, how |-> "error",
              identity |-> 0, hit |-> fail]

\* generateSelfSignedCert (lines 52-171) when step fail fails: the steps
\* before it have taken effect.  OpenFile with O_TRUNC empties the file;
\* a failed pem.Encode leaves no valid block of its own
generateSelfSignedCert(files, made, fail) ==
    LET k  == FailAt(fail)
        n  == made + 1
        \* lines 126-137
        cert == IF k <= 3 THEN files.cert
                ELSE [exists |-> TRUE,
                      leaf |-> IF k >= 5 THEN n ELSE 0,
                      ca   |-> IF k >= 6 THEN n ELSE 0]
        \* lines 139-152
        key  == IF k <= 6 THEN files.key
                ELSE [exists |-> TRUE, key |-> IF k >= 8 THEN n ELSE 0]
        \* lines 154-163
        ca   == IF k <= 8 THEN files.ca
                ELSE [exists |-> TRUE, ca |-> IF k >= 10 THEN n ELSE 0]
        out  == [cert |-> cert, key |-> key, ca |-> ca]
        made1 == IF k >= 3 THEN n ELSE made
    IN  IF fail = "none" /\ LoadX509KeyPair(out)
        THEN [files |-> out, made |-> made1, ok |-> TRUE, how |-> "generated",
              identity |-> out.cert.leaf, hit |-> "none"]
        ELSE [files |-> out, made |-> made1, ok |-> FALSE, how |-> "error",
              identity |-> 0, hit |-> fail]

\* a provisioner that generates on every start
LoadOrGenerateCert_AlwaysGenerate(files, made, selfSigned, fail) ==
    IF ~selfSigned THEN loadCertificates(files, made)
    ELSE generateSelfSignedCert(files, made, fail)

\* a provisioner that generates whenever loading fails, whatever the mode
LoadOrGenerateCert_FallBack(files, made, selfSigned, fail) ==
    IF loadCertificates(files, made).ok
    THEN loadCertificates(files, made)
    ELSE generateSelfSignedCert(files, made, fail)

\* LoadOrGenerateCert (lines 25-41)
LoadOrGenerateCert(files, made, selfSigned, fail) ==
    IF ~selfSigned THEN loadCertificates(files, made)
    ELSE IF fileExists(files.cert) /\ fileExists(files.key)
            /\ loadCertificates(files, made).ok
    THEN loadCertificates(files, made)
    ELSE generateSelfSignedCert(files, made, fail)

\* what the paths hold when the server is first started: nothing, or
\* files the user has put there (identities 101 and 102, not generated
\* here): a pair, a certificate without its key, a certificate with the
\* key of another
InitialFiles ==
    {NoFiles,
     [NoFiles EXCEPT !.cert = [exists |-> TRUE, leaf |-> 101, ca |-> 0],
                     !.key = [exists |-> TRUE, key |-> 101]],
     [NoFiles EXCEPT !.cert = [exists |-> TRUE, leaf |-> 101, ca |-> 0]],
     [NoFiles EXCEPT !.cert = [exists |-> TRUE, leaf |-> 101, ca |-> 0],
                     !.key = [exists |-> TRUE, key |-> 102]]}

InitTls ==
    /\ probe \in {[kind |-> "tls", files |-> f, made |-> 0,
                   selfSigned |-> FALSE, ok |-> FALSE, how |-> "none",
                   identity |-> 0, hit |-> "none"] : f \in InitialFiles}
    /\ cfg = DefaultConfig
    /\ rq = [r \in Reqs |-> FreshRequest("unused", 0)]
    /\ transportPool = {}
    /\ transportsMade = 0
    /\ requestIDGen = 0

\* the server starts (main.go line 117): one call of LoadOrGenerateCert,
\* in which at most one step fails
Provision ==
    /\ probe.kind = "tls"
    /\ probe.made < MaxIdentities
    /\ \E selfSigned \in BOOLEAN,
          fail \in {"none"} \cup {FailPoints[i] : i \in 1..Len(FailPoints)} :
          LET res == LoadOrGenerateCert(probe.files, probe.made, selfSigned, fail)
          IN  probe' = [kind |-> "tls", files |-> res.files, made |-> res.made,
                        selfSigned |-> selfSigned, ok |-> res.ok,
                        how |-> res.how, identity |-> res.identity,
                        hit |-> res.hit]
    /\ UNCHANGED <<cfg, rq, transportPool, transportsMade, requestIDGen>>

SpecTls == InitTls /\ [][Provision]_vars

---------------------------------------------------------------------------
(* cmd/httpsify: run, from the flags to the end of the process *)

\* connections the model lets the listener accept
MaxConns == 2

\* seconds Shutdown is given (main.go line 178)
DrainDeadline == 30

Conns == 1..MaxConns

\* Config.Validate (config.go lines 186-211); the four timeouts keep the
\* defaults of DefaultConfig, no flag sets them
Validate(listenAddr, selfSigned, certPath, keyPath) ==
    /\ listenAddr # ""
    /\ ~selfSigned => (certPath # "" /\ keyPath # "")

\* what the flags can make of the options Validate reads
StartupOptions ==
    [listen : {"", ":443"}, selfSigned : BOOLEAN,
     cert : {"", "cert.pem"}, key : {"", "key.pem"}]

\* a run that goes on although provisioning failed
ProvisionOutcome_IgnoreError(ok) == "provisioned"

\* main.go lines 122-124: the error of LoadOrGenerateCert ends run
ProvisionOutcome(ok) == IF ok THEN "provisioned" ELSE "exited"

NoConn == [st |-> "none", at |-> 0]

\* the process ends: what has not returned by then is cut
ProcessExit(conns, clock) ==
    [c \in Conns |->
        IF conns[c].st \in {"active", "tunnel"}
        THEN [st |-> "cut", at |-> clock] ELSE conns[c]]

InitRun ==
    /\ probe = [kind |-> "run", pc |-> "start", exit |-> "none",
                valid |-> FALSE, selfSigned |-> FALSE, cert |-> "none",
                listened |-> FALSE, listening |-> FALSE,
                conns |-> [c \in Conns |-> NoConn], clock |-> 0]
    /\ cfg = DefaultConfig
    /\ rq = [r \in Reqs |-> FreshRequest("unused", 0)]
    /\ transportPool = {}
    /\ transportsMade = 0
    /\ requestIDGen = 0

\* main.go lines 77-111: flags, -version, Validate
RunConfigure ==
    /\ probe.kind = "run" /\ probe.pc = "start"
    /\ \E opt \in StartupOptions, showVer \in BOOLEAN :
          IF showVer
          THEN probe' = [probe EXCEPT !.pc = "exited", !.exit = "nil"]
          ELSE IF Validate(opt.listen, opt.selfSigned, opt.cert, opt.key)
          THEN probe' = [probe EXCEPT !.pc = "validated", !.valid = TRUE,
                                      !.selfSigned = opt.selfSigned]
          ELSE probe' = [probe EXCEPT !.pc = "exited", !.exit = "error",
                                      !.selfSigned = opt.selfSigned]
    /\ UNCHANGED <<cfg, rq, transportPool, transportsMade, requestIDGen>>

\* main.go lines 117-124: LoadOrGenerateCert on what the paths hold
RunProvision ==
    /\ probe.kind = "run" /\ probe.pc = "validated"
    /\ \E files \in InitialFiles,
          fail \in {"none"} \cup {FailPoints[i] : i \in 1..Len(FailPoints)} :
          LET res == LoadOrGenerateCert(files, 0, probe.selfSigned, fail)
              pc1 == ProvisionOutcome(res.ok)
          IN  probe' = [probe EXCEPT
                          !.pc = pc1,
                          !.cert = IF res.ok THEN "ok" ELSE "error",
                          !.exit = IF pc1 = "exited" THEN "error" ELSE "none"]
    /\ UNCHANGED <<cfg, rq, transportPool, transportsMade, requestIDGen>>

\* main.go lines 144-166 and 171-172: the goroutine calls
\* ListenAndServeTLS, which binds the address or fails; a failure reaches
\* run through errChan and ends it
RunListen ==
    /\ probe.kind = "run" /\ probe.pc = "provisioned"
    /\ \/ probe' = [probe EXCEPT !.pc = "serving", !.listened = TRUE,
                                 !.listening = TRUE]
       \/ probe' = [probe EXCEPT !.pc = "exited", !.exit = "error"]
    /\ UNCHANGED <<cfg, rq, transportPool, transportsMade, requestIDGen>>

\* the listener accepts a connection and the handler starts
Accept(c) ==
    /\ probe.kind = "run" /\ probe.pc = "serving" /\ probe.listening
    /\ probe.conns[c].st = "none"
    /\ probe' = [probe EXCEPT !.conns[c].st = "active"]
    /\ UNCHANGED <<cfg, rq, transportPool, transportsMade, requestIDGen>>

\* ServeHTTP returns (part_001 lines 64-100)
HandlerReturn(c) ==
    /\ probe.kind = "run" /\ probe.pc \in {"serving", "draining"}
    /\ probe.conns[c].st = "active"
    /\ probe' = [probe EXCEPT !.conns[c].st = "done"]
    /\ UNCHANGED <<cfg, rq, transportPool, transportsMade, requestIDGen>>

\* handleWebSocket takes the connection over (part_001 line 202): the
\* server no longer tracks it
Hijack(c) ==
    /\ probe.kind = "run" /\ probe.pc \in {"serving", "draining"}
    /\ probe.conns[c].st = "active"
    /\ probe' = [probe EXCEPT !.conns[c].st = "tunnel"]
    /\ UNCHANGED <<cfg, rq, transportPool, transportsMade, requestIDGen>>

\* both copy loops are over and wg.Wait returns (part_001 line 236)
TunnelEnd(c) ==
    /\ probe.kind = "run" /\ probe.pc \in {"serving", "draining"}
    /\ probe.conns[c].st = "tunnel"
    /\ probe' = [probe EXCEPT !.conns[c].st = "done"]
    /\ UNCHANGED <<cfg, rq, transportPool, transportsMade, requestIDGen>>

\* main.go lines 168-181: SIGINT or SIGTERM arrives, run calls Shutdown,
\* which closes the listener first
Signal ==
    /\ probe.kind = "run" /\ probe.pc \in {"provisioned", "serving"}
    /\ probe' = [probe EXCEPT !.pc = "draining", !.listening = FALSE,
                              !.clock = 0]
    /\ UNCHANGED <<cfg, rq, transportPool, transportsMade, requestIDGen>>

\* a second of the drain deadline passes
DrainTick ==
    /\ probe.kind = "run" /\ probe.pc = "draining"
    /\ probe.clock < DrainDeadline
    /\ probe' = [probe EXCEPT !.clock = @ + 1]
    /\ UNCHANGED <<cfg, rq, transportPool, transportsMade, requestIDGen>>

\* main.go lines 181-187: http.Server.Shutdown returns nil once no
\* connection the server tracks is active; hijacked connections are
\* neither waited for nor closed.  run returns nil and the process ends
ShutdownDone ==
    /\ probe.kind = "run" /\ probe.pc = "draining"
    /\ \A c \in Conns : probe.conns[c].st # "active"
    /\ probe' = [probe EXCEPT !.pc = "exited", !.exit = "nil",
                              !.conns = ProcessExit(probe.conns, probe.clock)]
    /\ UNCHANGED <<cfg, rq, transportPool, transportsMade, requestIDGen>>

\* main.go lines 181-183: the context expires with a handler still
\* running, Shutdown returns its error, run returns it and main exits
ShutdownDeadline ==
    /\ probe.kind = "run" /\ probe.pc = "draining"
    /\ probe.clock = DrainDeadline
    /\ \E c \in Conns : probe.conns[c].st = "active"
    /\ probe' = [probe EXCEPT !.pc = "exited", !.exit = "error",
                              !.conns = ProcessExit(probe.conns, probe.clock)]
    /\ UNCHANGED <<cfg, rq, transportPool, transportsMade, requestIDGen>>

NextRun ==
    \/ RunConfigure
    \/ RunProvision
    \/ RunListen
    \/ \E c \in Conns : Accept(c)
    \/ \E c \in Conns : HandlerReturn(c)
    \/ \E c \in Conns : Hijack(c)
    \/ \E c \in Conns : TunnelEnd(c)
    \/ Signal
    \/ DrainTick
    \/ ShutdownDone
    \/ ShutdownDeadline

SpecRun == InitRun /\ [][NextRun]_vars

---------------------------------------------------------------------------
(* The refusal of one request by two servers of different policy *)

\* policies with at most one deny range over the small ports
RefusalPolicies ==
    {[DenyPorts |-> d, AllowRange |-> a, AccessLog |-> TRUE] :
        d \in {<<>>} \cup {<<x>> : x \in PolicyRanges}, a \in PolicyRanges}

\* the same request, to a server of policy cfgA and to one of policy cfgB
InitRefusal ==
    /\ probe \in {[kind |-> "refusal", port |-> p,
                   host |-> Itoa(p) \o <<".">> \o sLocalhost,
                   cfgA |-> a, cfgB |-> b, applied |-> FALSE,
                   wA |-> NewWriter, wB |-> NewWriter,
                   kindA |-> "none", kindB |-> "none"] :
                     p \in 0..(MaxPolicyPort + 1),
                     a \in RefusalPolicies,
                     b \in {x \in RefusalPolicies : x.DenyPorts = <<>>}}
    /\ cfg = DefaultConfig
    /\ rq = [r \in Reqs |-> FreshRequest("unused", 0)]
    /\ transportPool = {}
    /\ transportsMade = 0
    /\ requestIDGen = 0

\* what ServeHTTP lines 72-88 send as the answer of an admission
RefusalAnswer(a) ==
    IF a.kind = "admitted" THEN NewWriter
    ELSE writeJSONError(NewWriter, a.status, a.errMsg, a.hint, a.example)

\* both servers resolve and admit or refuse the request
Refuse ==
    /\ probe.kind = "refusal"
    /\ ~probe.applied
    /\ LET a == Admit(probe.cfgA, probe.host)
           b == Admit(probe.cfgB, probe.host)
       IN  probe' = [probe EXCEPT !.applied = TRUE,
                                  !.wA = RefusalAnswer(a),
                                  !.wB = RefusalAnswer(b),
                                  !.kindA = a.kind, !.kindB = b.kind]
    /\ UNCHANGED <<cfg, rq, transportPool, transportsMade, requestIDGen>>

SpecRefusal == InitRefusal /\ [][Refuse]_vars

---------------------------------------------------------------------------
(* ParsePortRange applied on its own *)

\* the numbers the texts are written from
RangeNumbers == {0, 1, 2, 22, 135, 139, 1024, 65535, 65536}

\* the ways a text is written from the numbers a and b
RangeShapes ==
    {"single", "pair", "spaced", "openEnd", "openStart", "negative", "word",
     "empty"}

RangeText(shape, a, b) ==
    CASE shape = "single"    -> Itoa(a)
      [] shape = "pair"      -> Itoa(a) \o <<"-">> \o Itoa(b)
      [] shape = "spaced"    -> <<" ">> \o Itoa(a) \o <<" ", "-", " ">>
                                  \o Itoa(b) \o <<" ">>
      [] shape = "openEnd"   -> Itoa(a) \o <<"-">>
      [] shape = "openStart" -> <<"-">> \o Itoa(b)
      [] shape = "negative"  -> Itoa(0 - a)
      [] shape = "word"      -> <<"a", "b", "c">>
      [] OTHER               -> <<>>

InitRange ==
    /\ probe \in {[kind |-> "range", shape |-> sh, a |-> a, b |-> b,
                   text |-> RangeText(sh, a, b), applied |-> FALSE,
                   ok |-> FALSE, pr |-> PortRange(0, 0)] :
                     sh \in RangeShapes, a \in RangeNumbers, b \in RangeNumbers}
    /\ cfg = DefaultConfig
    /\ rq = [r \in Reqs |-> FreshRequest("unused", 0)]
    /\ transportPool = {}
    /\ transportsMade = 0
    /\ requestIDGen = 0

ParseRange ==
    /\ probe.kind = "range"
    /\ ~probe.applied
    /\ LET res == ParsePortRange(probe.text)
       IN  probe' = [probe EXCEPT !.applied = TRUE, !.ok = res.ok,
                                  !.pr = res.pr]
    /\ UNCHANGED <<cfg, rq, transportPool, transportsMade, requestIDGen>>

SpecRange == InitRange /\ [][ParseRange]_vars

---------------------------------------------------------------------------
(* cmd/httpsify: the configuration run builds from flags and environment *)

sPort80 == <<"8", "0">>
sRange2000 == <<"2", "0", "0", "0", "-", "3", "0", "0", "0">>
sRange1To100 == <<"1", "-", "1", "0", "0">>

\* the environments of the model: each variable unset ("") or valid
Environments ==
    [LISTEN : {"", ":8443"}, CERT : {"", "/env/cert.pem"},
     KEY : {"", "/env/key.pem"}, SELF_SIGNED : {"", "false", "true"},
     DENY_PORTS : {<<>>, sPort80}, ALLOW_RANGE : {<<>>, sRange2000},
     VERBOSE : {"", "1"}, ACCESS_LOG : {"", "false"}]

\* what the flag variables hold after flag.Parse when no flag is given
\* (main.go lines 36-46): the defaults, read from DefaultConfig before
\* LoadFromEnv has run
FlagDefaults ==
    [given      |-> "none",
     listen     |-> DefaultOptions.ListenAddr,
     certPath   |-> DefaultOptions.CertPath,
     keyPath    |-> DefaultOptions.KeyPath,
     selfSigned |-> TRUE,
     denyPorts  |-> DefaultDenyPortsText,
     allowRange |-> Itoa(DefaultOptions.AllowRange.Start) \o <<"-">>
                      \o Itoa(DefaultOptions.AllowRange.End),
     verbose    |-> DefaultOptions.Verbose,
     accessLog  |-> DefaultOptions.AccessLog]

\* the command lines of the model: no flag, or one flag given
CommandLines ==
    {FlagDefaults,
     [FlagDefaults EXCEPT !.given = "listen", !.listen = ":9443"],
     [FlagDefaults EXCEPT !.given = "cert", !.certPath = "/flag/cert.pem"],
     [FlagDefaults EXCEPT !.given = "key", !.keyPath = "/flag/key.pem"],
     [FlagDefaults EXCEPT !.given = "self-signed", !.selfSigned = FALSE],
     [FlagDefaults EXCEPT !.given = "deny-ports", !.denyPorts = <<>>],
     [FlagDefaults EXCEPT !.given = "deny-ports", !.denyPorts = <<"2", "2">>],
     [FlagDefaults EXCEPT !.given = "deny-ports", !.denyPorts = <<"x">>],
     [FlagDefaults EXCEPT !.given = "allow-range", !.allowRange = sRange1To100],
     [FlagDefaults EXCEPT !.given = "verbose", !.verbose = TRUE],
     [FlagDefaults EXCEPT !.given = "access-log", !.accessLog = FALSE]}

\* run, lines 34-107: DefaultConfig, LoadFromEnv, then the flag variables
\* are assigned whether their flag was given or not
BuildConfig(env, flags) ==
    LET c1    == LoadFromEnv(DefaultOptions, env)
        deny  == ParsePortRanges(flags.denyPorts)
        allow == ParsePortRange(flags.allowRange)
        c2    == [c1 EXCEPT !.ListenAddr = flags.listen,
                            !.CertPath = flags.certPath,
                            !.KeyPath = flags.keyPath,
                            !.SelfSigned = flags.selfSigned,
                            !.Verbose = flags.verbose,
                            !.AccessLog = flags.accessLog]
    IN  IF flags.denyPorts # <<>> /\ ~deny.ok
        THEN [ok |-> FALSE, cfg |-> c2]
        ELSE IF flags.allowRange # <<>> /\ ~allow.ok
        THEN [ok |-> FALSE, cfg |-> c2]
        ELSE [ok |-> TRUE,
              cfg |-> [c2 EXCEPT
                         !.DenyPorts = IF flags.denyPorts # <<>>
                                       THEN deny.ranges ELSE @,
                         !.AllowRange = IF flags.allowRange # <<>>
                                        THEN allow.pr ELSE @]]

InitEnv ==
    /\ probe \in {[kind |-> "env", env |-> e, flags |-> f, applied |-> FALSE,
                   ok |-> FALSE, cfg |-> DefaultOptions] :
                     e \in Environments, f \in CommandLines}
    /\ cfg = DefaultConfig
    /\ rq = [r \in Reqs |-> FreshRequest("unused", 0)]
    /\ transportPool = {}
    /\ transportsMade = 0
    /\ requestIDGen = 0

Configure ==
    /\ probe.kind = "env"
    /\ ~probe.applied
    /\ LET res == BuildConfig(probe.env, probe.flags)
       IN  probe' = [probe EXCEPT !.applied = TRUE, !.ok = res.ok,
                                  !.cfg = res.cfg]
    /\ UNCHANGED <<cfg, rq, transportPool, transportsMade, requestIDGen>>

SpecEnv == InitEnv /\ [][Configure]_vars

---------------------------------------------------------------------------
(* Logger.LogRequest called on its own *)

\* calls of LogRequest in a run of the model
MaxLogCalls == 2

\* a logger with access logging on or off, nothing logged yet
InitLog ==
    /\ probe \in {[kind |-> "log",
                   c |-> [DefaultConfig EXCEPT !.AccessLog = a],
                   q |-> FreshRequest("unused", 0), calls |-> 0] :
                     a \in BOOLEAN}
    /\ cfg = DefaultConfig
    /\ rq = [r \in Reqs |-> FreshRequest("unused", 0)]
    /\ transportPool = {}
    /\ transportsMade = 0
    /\ requestIDGen = 0

\* one call of LogRequest with the id of the context, a status, a byte
\* count and a terminal error or none
LogCall ==
    /\ probe.kind = "log"
    /\ probe.calls < MaxLogCalls
    /\ \E id \in 1..2, status \in {StatusOK, StatusBadGateway},
          bytes \in {0, 5}, err \in BackendErrors \cup {NoError} :
          LET q1 == [probe.q EXCEPT !.id = id, !.rw.statusCode = status,
                                    !.rw.bytesWritten = bytes, !.rw.err = err]
          IN  probe' = [probe EXCEPT
                          !.q = [q1 EXCEPT !.logged = LogRequest(probe.c, q1)],
                          !.calls = @ + 1]
    /\ UNCHANGED <<cfg, rq, transportPool, transportsMade, requestIDGen>>

SpecLog == InitLog /\ [][LogCall]_vars

---------------------------------------------------------------------------
(* The responseWriter wrapper called on its own *)

\* calls made on one wrapper
MaxWrapperOps == 4

\* a fresh wrapper around a fresh writer (ServeHTTP line 90); first is
\* the status of the first header, explicit or implied, reported the sum
\* of the byte counts the writer returned
InitWrapper ==
    /\ probe = [kind |-> "wrapper",
                st |-> [w |-> NewWriter, rw |-> NewResponseWriter],
                first |-> 0, reported |-> 0, ops |-> 0]
    /\ cfg = DefaultConfig
    /\ rq = [r \in Reqs |-> FreshRequest("unused", 0)]
    /\ transportPool = {}
    /\ transportsMade = 0
    /\ requestIDGen = 0

\* a caller calls WriteHeader
WrapperWriteHeader ==
    /\ probe.kind = "wrapper"
    /\ probe.ops < MaxWrapperOps
    /\ \E code \in {StatusOK, StatusBadRequest, StatusForbidden,
                     StatusBadGateway} :
          probe' = [probe EXCEPT
                      !.st = RWWriteHeader(probe.st, code),
                      !.first = IF @ = 0 THEN code ELSE @,
                      !.ops = @ + 1]
    /\ UNCHANGED <<cfg, rq, transportPool, transportsMade, requestIDGen>>

\* a caller calls Write; the writer takes all of the bytes or, failing,
\* fewer
WrapperWrite ==
    /\ probe.kind = "wrapper"
    /\ probe.ops < MaxWrapperOps
    /\ \E b \in {<<"h">>, <<"h", "i">>} : \E n \in 0..Len(b) :
          probe' = [probe EXCEPT
                      !.st = RWWriteReported(probe.st, b, n),
                      !.first = IF @ = 0 THEN StatusOK ELSE @,
                      !.reported = @ + n,
                      !.ops = @ + 1]
    /\ UNCHANGED <<cfg, rq, transportPool, transportsMade, requestIDGen>>

SpecWrapper == InitWrapper /\ [][WrapperWriteHeader \/ WrapperWrite]_vars

---------------------------------------------------------------------------
(* X-Forwarded-For of a forwarded request *)

\* proxies an inbound X-Forwarded-For value names at most
MaxHops == 2

ForwardAddrs == {"10.0.0.1", "10.0.0.2", "192.168.1.5"}

\* a header value listing the addresses of hops: joined with ", "
RECURSIVE JoinAddrs(_)
JoinAddrs(hops) ==
    IF hops = <<>> THEN <<>>
    ELSE IF Len(hops) = 1 THEN <<hops[1]>>
    ELSE <<hops[1], ", ">> \o JoinAddrs(Tail(hops))

\* the inbound X-Forwarded-For values: none (empty), or up to MaxHops
\* addresses
PriorValues ==
    {JoinAddrs(h) : h \in UNION {[1..n -> ForwardAddrs] : n \in 0..MaxHops}}

\* the Director, lines 133-138: with a client address it sets the header
\* to the prior value, ", " and the address, or to the address alone
DirectorForwardedFor(prior, clientIP, remoteOK) ==
    IF ~remoteOK THEN prior
    ELSE IF prior # <<>> THEN prior \o <<", ", clientIP>>
    ELSE <<clientIP>>

\* httputil.ReverseProxy.ServeHTTP (called at line 175), after the
\* Director has returned and no Rewrite hook being set: it appends the
\* client address to the X-Forwarded-For values the outbound request has
ReverseProxyForwardedFor(hdr, clientIP, remoteOK) ==
    IF ~remoteOK THEN hdr
    ELSE IF hdr # <<>> THEN hdr \o <<", ", clientIP>>
    ELSE <<clientIP>>

\* the X-Forwarded-For value the backend receives
ForwardedFor(prior, clientIP, remoteOK) ==
    ReverseProxyForwardedFor(DirectorForwardedFor(prior, clientIP, remoteOK),
                             clientIP, remoteOK)

InitForward ==
    /\ probe \in {[kind |-> "forward", prior |-> p, clientIP |-> ip,
                   remoteOK |-> ok, applied |-> FALSE, out |-> <<>>] :
                     p \in PriorValues, ip \in ForwardAddrs \cup {"127.0.0.1"},
                     ok \in BOOLEAN}
    /\ cfg = DefaultConfig
    /\ rq = [r \in Reqs |-> FreshRequest("unused", 0)]
    /\ transportPool = {}
    /\ transportsMade = 0
    /\ requestIDGen = 0

Forward ==
    /\ probe.kind = "forward"
    /\ ~probe.applied
    /\ probe' = [probe EXCEPT
                    !.applied = TRUE,
                    !.out = ForwardedFor(probe.prior, probe.clientIP,
                                         probe.remoteOK)]
    /\ UNCHANGED <<cfg, rq, transportPool, transportsMade, requestIDGen>>

SpecForward == InitForward /\ [][Forward]_vars

---------------------------------------------------------------------------
(* Properties *)

IsPrefix(a, b) == Len(a) <= Len(b) /\ SubSeq(b, 1, Len(a)) = a

Called(q, f) == \E i \in 1..Len(q.calls) : q.calls[i] = f

\* every call of g comes after a call of f
CalledBefore(q, f, g) ==
    \A j \in 1..Len(q.calls) :
        q.calls[j] = g => \E i \in 1..(j - 1) : q.calls[i] = f

ConnectCalls == {"RoundTrip", "DialTimeout ok", "DialTimeout err"}

DispatchCalls == {"isWebSocketRequest", "handleHTTP", "handleWebSocket"}

\* p lies in no deny range of c and inside its allow range
InPolicy(c, p) ==
    /\ ~\E i \in 1..Len(c.DenyPorts) :
            p \in (c.DenyPorts[i].Start)..(c.DenyPorts[i].End)
    /\ p \in (c.AllowRange.Start)..(c.AllowRange.End)

Arrived(q) == q.pc \notin {"idle", "unused"}

\* what parseHost gives for each host the requests of the model carry,
\* and the resolved port in decimal
Resolution ==
    [h \in SampleHosts \cup {NoRequest.host} |->
        LET res == parseHost(h)
        IN  [ok |-> res.ok, port |-> res.port, err |-> res.err,
             text |-> Itoa(res.port)]]

\* C1: a backend connection (the round trip of handleHTTP, the dial of
\* handleWebSocket) is asked for only after parseHost succeeded and
\* IsPortAllowed returned true for the resolved port, and only towards
\* 127.0.0.1 on that port; a request with a malformed host or a refused
\* port reaches neither isWebSocketRequest nor handleHTTP nor
\* handleWebSocket.
C1_BackendOnlyAfterAdmission ==
    \A r \in Reqs :
        LET q   == rq[r]
            res == Resolution[q.in.host]
            forwarded == q.conns # <<>> \/
                         \E i \in 1..Len(q.calls) :
                             q.calls[i] \in ConnectCalls \cup DispatchCalls
        IN  /\ forwarded =>
                  /\ res.ok
                  /\ InPolicy(cfg, res.port)
                  /\ \A i \in 1..Len(q.conns) :
                        q.conns[i].addr = <<"127.0.0.1", ":">> \o res.text
                  /\ \A f \in ConnectCalls \cup DispatchCalls :
                        /\ CalledBefore(q, "parseHost", f)
                        /\ CalledBefore(q, "IsPortAllowed", f)
            /\ (Len(q.conns) > 0) = (\E f \in ConnectCalls : Called(q, f))

\* C1 witness: one request has dialled its backend while another, whose
\* port is refused, was answered without any connection
C1_Witness ==
    \E r1 \in Reqs, r2 \in Reqs :
        /\ Len(rq[r1].conns) > 0
        /\ Called(rq[r1], "DialTimeout ok")
        /\ rq[r2].pc = "done"
        /\ rq[r2].w.status = StatusForbidden
        /\ rq[r2].conns = <<>>

\* C2: IsPortAllowed(p) is true exactly when p lies in no deny range and
\* inside the allow range, bounds included; a port in a deny range and in
\* the allow range is refused, and so is a port outside the allow range
\* that no deny range holds.
C2_AllowedIffNotDeniedAndInRange ==
    (probe.kind = "port" /\ probe.applied) =>
        (probe.allowed <=> InPolicy(cfg, probe.port))

\* C2 witness: a port that a deny range and the allow range both hold was
\* refused
C2_Witness ==
    /\ probe.kind = "port"
    /\ probe.applied
    /\ ~probe.allowed
    /\ Len(cfg.DenyPorts) = 2
    /\ probe.port \in (cfg.DenyPorts[2].Start)..(cfg.DenyPorts[2].End)
    /\ probe.port \notin (cfg.DenyPorts[1].Start)..(cfg.DenyPorts[1].End)
    /\ probe.port \in (cfg.AllowRange.Start)..(cfg.AllowRange.End)

\* the hosts C3 calls valid: a decimal number, one dot, one of the two
\* domains, and nothing else but a port suffix of digits
WellFormedHost(p) ==
    /\ p.numeric
    /\ p.pre = <<>>
    /\ p.dot = <<".">>
    /\ p.dom \in {sLocalhost, sLocaltestMe}
    /\ p.suffix \in {<<>>, sColon443}

\* C3: parseHost returns n for n.localhost and n.localtest.me, with or
\* without a ":<digits>" suffix, for every n in 1..65535; it returns an
\* error for n = 0 and n = 65536, for a label that is no number or is
\* negative, for a host without a port label, for another domain and for
\* a host with a label before the digits.
C3_ParseHost ==
    (probe.kind = "host" /\ probe.applied) =>
        IF WellFormedHost(probe) /\ probe.n \in 1..65535
        THEN probe.out.ok /\ probe.out.port = probe.n /\ probe.out.err = <<>>
        ELSE ~probe.out.ok /\ probe.out.err # <<>>

\* C3 witness: 65535.localtest.me:443 was resolved to 65535
C3_Witness ==
    /\ probe.kind = "host"
    /\ probe.applied
    /\ probe.host = <<"6", "5", "5", "3", "5", ".">> \o sLocaltestMe \o sColon443
    /\ probe.out.ok
    /\ probe.out.port = 65535

\* C4: a request whose host fails resolution is answered with 400 and a
\* JSON error body; one whose port the policy refuses is answered with
\* 403 and a JSON error body whose error text is "Port <n> is not
\* allowed"; in both cases the handler has returned and nothing was
\* forwarded.
C4_RejectionResponses ==
    \A r \in Reqs :
        LET q   == rq[r]
            res == Resolution[q.in.host]
        IN  Arrived(q) =>
              /\ ~res.ok =>
                    /\ q.pc = "done"
                    /\ q.w.status = 400
                    /\ q.w.contentType = "application/json"
                    /\ Len(q.w.body) = 1
                    /\ q.w.body[1].Error = res.err
                    /\ q.w.body[1].Error # <<>>
                    /\ q.conns = <<>>
                    /\ ~q.hijacked
              /\ (res.ok /\ ~InPolicy(cfg, res.port)) =>
                    /\ q.pc = "done"
                    /\ q.w.status = 403
                    /\ q.w.contentType = "application/json"
                    /\ Len(q.w.body) = 1
                    /\ q.w.body[1].Error =
                          <<"Port ">> \o res.text \o <<" is not allowed">>
                    /\ q.conns = <<>>
                    /\ ~q.hijacked
              /\ q.in.host = <<"2", "2", ".">> \o sLocalhost /\ q.w.status = 403 =>
                    q.w.body[1].Error = <<"Port ", "2", "2", " is not allowed">>
              /\ q.in.host = sExampleCom =>
                    q.w.body[1].Error = <<"invalid host format: ">> \o sExampleCom

\* C4 witness: example.com was answered with 400 and 22.localhost with 403
C4_Witness ==
    \E r1 \in Reqs, r2 \in Reqs :
        /\ rq[r1].in.host = sExampleCom
        /\ rq[r1].w.status = 400
        /\ rq[r2].in.host = <<"2", "2", ".">> \o sLocalhost
        /\ rq[r2].w.status = 403
        /\ rq[r2].w.body[1].Error = <<"Port ", "2", "2", " is not allowed">>

\* the class C5 gives an error: a timeout first, then a refused
\* connection, then anything else
C5Class(e) ==
    IF e.timeout THEN "timeout"
    ELSE IF \E i \in 1..Len(e.text) : e.text[i] = "connection refused"
         THEN "refused"
         ELSE "unavailable"

C5Message(class) ==
    CASE class = "timeout" -> <<"Request timed out">>
      [] class = "refused" -> <<"Connection refused">>
      [] OTHER             -> <<"Backend service unavailable">>

C5Hint(class, port) ==
    CASE class = "timeout" -> <<"The backend service took too long to respond">>
      [] class = "refused" -> <<"No service is listening on port ">> \o Itoa(port)
      [] OTHER             -> <<"Make sure a service is running on port ">> \o Itoa(port)

\* C5: when the round trip of an admitted ordinary request fails, the
\* client gets 502 and a JSON error of the class of the failure (timeout
\* before connection refused before unavailable), with the hint of that
\* class, the hints of the three classes being different; and the failure
\* is the request's terminal error.
C5_BackendFailure ==
    \A r \in Reqs :
        LET q == rq[r]
        IN  (Called(q, "RoundTrip") /\ q.backendErr # NoError) =>
              /\ q.w.status = 502
              /\ q.w.contentType = "application/json"
              /\ Len(q.w.body) = 1
              /\ q.w.body[1].Error = C5Message(C5Class(q.backendErr))
              /\ q.w.body[1].Hint = C5Hint(C5Class(q.backendErr), q.port)
              /\ \A c1, c2 \in {"timeout", "refused", "unavailable"} :
                    c1 # c2 => C5Hint(c1, q.port) # C5Hint(c2, q.port)
              /\ q.rw.err = q.backendErr

\* C5 witness: a timeout that also mentions "connection refused" was
\* answered as a timeout
C5_Witness ==
    \E r \in Reqs :
        /\ Called(rq[r], "RoundTrip")
        /\ rq[r].backendErr.timeout
        /\ MentionsRefused(rq[r].backendErr)
        /\ rq[r].w.status = 502
        /\ rq[r].w.body[1].Error = <<"Request timed out">>

\* C6: when the dial of the stream tunnel fails, the client gets 502 and
\* a structured error and its connection is not taken over; Hijack is
\* called only after the dial has succeeded.
C6_DialBeforeHijack ==
    \A r \in Reqs :
        LET q == rq[r]
        IN  /\ Called(q, "DialTimeout err") =>
                /\ q.w.status = 502
                /\ q.w.contentType = "application/json"
                /\ Len(q.w.body) = 1
                /\ q.w.body[1].Error = <<"Failed to connect to backend">>
                /\ ~Called(q, "Hijack")
                /\ ~q.hijacked
                /\ q.clientConn = "none"
            /\ CalledBefore(q, "DialTimeout ok", "Hijack")
            /\ q.hijacked => Called(q, "DialTimeout ok")
            /\ \A i \in 1..Len(q.conns) :
                  q.conns[i].via = "Dial" =>
                      q.conns[i].addr = <<"127.0.0.1", ":">> \o Itoa(q.port)

\* C6 witness: a dial has failed and its request got the 502
C6_Witness ==
    \E r \in Reqs :
        /\ Called(rq[r], "DialTimeout err")
        /\ rq[r].pc = "done"
        /\ rq[r].w.status = 502

Established(q) == q.loopB2C # "none" \/ q.loopC2B # "none"

\* C7: a tunnel runs two copy loops, and handleWebSocket returns, and the
\* access record of the tunnel is written, only after both have returned.
C7_BothLoopsJoined ==
    \A r \in Reqs :
        LET q == rq[r]
            running == Cardinality({l \in {"B2C", "C2B"} :
                          IF l = "B2C" THEN q.loopB2C \in {"run"}
                          ELSE q.loopC2B \in {"buf", "run"}})
        IN  /\ (q.loopB2C = "none") = (q.loopC2B = "none")
            /\ Established(q) =>
                  /\ q.wg = running
                  /\ q.pc \in {"tunnel", "done"}
                  /\ (q.pc = "done" \/ q.logged # <<>>) =>
                        q.loopB2C = "done" /\ q.loopC2B = "done"

\* C7 witness: a tunnel has ended, both loops have returned and the
\* request is logged once
C7_Witness ==
    \E r \in Reqs :
        /\ Established(rq[r])
        /\ rq[r].pc = "done"
        /\ rq[r].loopB2C = "done"
        /\ rq[r].loopC2B = "done"
        /\ Len(rq[r].logged) = 1

\* C10: a transport taken from the pool is held by one request at most
\* from its Get to its Put: no two requests hold the same transport, and
\* a transport that is held is not in the pool.
C10_TransportExclusive ==
    /\ \A r1 \in Reqs, r2 \in Reqs :
          (r1 # r2 /\ rq[r1].transport # 0) =>
              rq[r1].transport # rq[r2].transport
    /\ \A r \in Reqs :
          /\ rq[r].transport # 0 => rq[r].transport \notin transportPool
          /\ (rq[r].transport # 0) = (rq[r].pc = "http_rt")
    /\ transportPool \subseteq 1..transportsMade

\* C10 witness: a request holds a transport that an earlier request has
\* put back, while the pool is empty again
C10_Witness ==
    \E r1 \in Reqs, r2 \in Reqs :
        /\ rq[r1].pc = "done"
        /\ Called(rq[r1], "RoundTrip")
        /\ rq[r2].pc = "http_rt"
        /\ rq[r2].transport = 1
        /\ transportsMade = 1
        /\ transportPool = {}

\* C8: in an established tunnel a copy loop that has returned has closed
\* its destination; once either peer has ended, or either loop has
\* returned, both loops return and the handler returns: no tunnel stays
\* half-open forever.
C8_TunnelTerminates ==
    /\ [](\A r \in Reqs :
            /\ rq[r].loopB2C = "done" => rq[r].clientConn = "closed"
            /\ rq[r].loopC2B = "done" => rq[r].backendConn = "closed")
    /\ (rq[1].pc = "tunnel" /\ (rq[1].cEnd \/ rq[1].bEnd))
          ~> (rq[1].pc = "done" /\ rq[1].loopB2C = "done"
                                /\ rq[1].loopC2B = "done")
    /\ (rq[1].pc = "tunnel"
            /\ (rq[1].loopB2C = "done" \/ rq[1].loopC2B = "done"))
          ~> (rq[1].pc = "done" /\ rq[1].loopB2C = "done"
                                /\ rq[1].loopC2B = "done")

\* C8 witness: the backend has ended, the client has not, and the tunnel
\* is down: both loops and the handler have returned
C8_Witness ==
    /\ rq[1].pc = "done"
    /\ rq[1].hijacked
    /\ rq[1].bEnd
    /\ ~rq[1].cEnd
    /\ rq[1].loopB2C = "done"
    /\ rq[1].loopC2B = "done"
    /\ rq[1].clientConn = "closed"
    /\ rq[1].backendConn = "closed"

\* C9: in an established tunnel the backend receives, after the replayed
\* request head, a prefix of what the client sent, and the client a
\* prefix of what the backend sent; and while a direction is up (its loop
\* runs and its destination is there) every byte sent is delivered or
\* still waiting to be copied: none is lost, changed, repeated or
\* reordered.
C9_ByteTransparency ==
    \A r \in Reqs :
        LET q == rq[r]
        IN  Established(q) =>
              /\ q.toBackend # <<>>
              /\ Head(q.toBackend) = "HEAD"
              /\ IsPrefix(Tail(q.toBackend), q.clientSent)
              /\ IsPrefix(q.toClient, q.backendSent)
              /\ (q.loopC2B # "done" /\ q.backendConn = "open" /\ ~q.bEnd) =>
                    q.clientSent = Tail(q.toBackend) \o q.clientBuf \o q.cIn
              /\ (q.loopB2C # "done" /\ q.clientConn = "open" /\ ~q.cEnd) =>
                    q.backendSent = q.toClient \o q.bIn

\* C9 witness: the client has sent "hi", the backend has received "hi"
\* and sent it back, and the client has received "hi"
C9_Witness ==
    /\ Established(rq[1])
    /\ rq[1].clientSent = <<"h", "i">>
    /\ Tail(rq[1].toBackend) = <<"h", "i">>
    /\ rq[1].backendSent = <<"h", "i">>
    /\ rq[1].toClient = <<"h", "i">>

\* C11: any two ids issued by one Server are different, also when their
\* handlers ran concurrently and read the same clock value; the counter
\* has advanced once per id taken.
C11_RequestIdsDistinct ==
    /\ \A i, j \in 1..Len(probe.issued) :
          i # j => probe.issued[i] # probe.issued[j]
    /\ \A i, j \in 1..Len(probe.pending) :
          i # j => probe.pending[i] # probe.pending[j]
    /\ requestIDGen = Len(probe.pending) + Len(probe.issued)

\* C11 witness: two ids were issued on the same clock reading, the later
\* counter value first
C11_Witness ==
    /\ Len(probe.issued) >= 2
    /\ probe.issued[1] = <<"1", "-", "2">>
    /\ probe.issued[2] = <<"1", "-", "1">>

\* C12: each admitted ordinary request is sent to the backend on its own
\* target port and its client receives what that backend answered: the
\* responses of concurrently handled requests to different ports are
\* never exchanged.
C12_PairedResponses ==
    \A r \in Reqs :
        LET q    == rq[r]
            own  == <<"127.0.0.1", ":">> \o Resolution[q.in.host].text
        IN  Called(q, "RoundTrip") =>
              /\ q.outbound.urlHost = own
              /\ (q.pc = "done" /\ q.backendErr = NoError) =>
                    \/ q.w.status = 200 /\ q.w.body = <<"from ">> \o own
                    \/ q.w.status = 404 /\ q.w.body = <<>>
              /\ \A r2 \in Reqs :
                    (/\ Called(rq[r2], "RoundTrip")
                     /\ rq[r2].port # q.port
                     /\ q.w.status = 200 /\ rq[r2].w.status = 200)
                        => rq[r2].w.body # q.w.body

\* C12 witness: two requests to different ports were in flight together
\* (each needed a transport of its own) and each got the answer of its
\* own backend
C12_Witness ==
    \E r1 \in Reqs, r2 \in Reqs :
        /\ transportsMade = 2
        /\ rq[r1].pc = "done" /\ rq[r2].pc = "done"
        /\ rq[r1].port = 8000 /\ rq[r2].port = 3000
        /\ rq[r1].w.body = <<"from ", "127.0.0.1", ":", "8", "0", "0", "0">>
        /\ rq[r2].w.body = <<"from ", "127.0.0.1", ":", "3", "0", "0", "0">>

\* C17: an admitted ordinary request goes to http://127.0.0.1:<port> with
\* the Host the client sent, X-Forwarded-Proto https, X-Forwarded-Host
\* the inbound host, and the X-Request-ID that is on the response.
C17_OutboundRequest ==
    \A r \in Reqs :
        LET q == rq[r]
        IN  Called(q, "RoundTrip") =>
              /\ q.outbound.scheme = "http"
              /\ q.outbound.urlHost =
                    <<"127.0.0.1", ":">> \o Resolution[q.in.host].text
              /\ q.outbound.host = q.in.host
              /\ q.outbound.host # q.outbound.urlHost
              /\ q.outbound.xForwardedProto = "https"
              /\ q.outbound.xForwardedHost = q.in.host
              /\ q.outbound.xRequestID = q.w.xRequestID
              /\ q.outbound.xRequestID = q.id
              /\ q.id > 0

\* C17 witness: the second request of the server was forwarded for
\* 3000.localtest.me:443 with id 2
C17_Witness ==
    \E r \in Reqs :
        /\ Called(rq[r], "RoundTrip")
        /\ rq[r].outbound.host = Itoa(3000) \o <<".">> \o sLocaltestMe \o sColon443
        /\ rq[r].outbound.urlHost = <<"127.0.0.1", ":", "3", "0", "0", "0">>
        /\ rq[r].outbound.xRequestID = 2
        /\ rq[r].w.xRequestID = 2

\* the head of the response a client has received.  A response written
\* through the ResponseWriter goes out with the headers set on it (line
\* 70).  After Hijack (line 202) the ResponseWriter is never written: the
\* client receives the bytes of the backend as io.Copy relays them (line
\* 223), and the request replayed to the backend (line 213) is the
\* inbound one, without the id.  xRequestID 0: no such header.
ClientResponseHead(q) ==
    IF q.hijacked
    THEN [received |-> q.toClient # <<>>, xRequestID |-> 0]
    ELSE [received |-> q.w.status # 0, xRequestID |-> q.w.xRequestID]

\* C13: every response a client receives for a request handled by
\* ServeHTTP, that of a stream-upgrade request included, carries an
\* X-Request-ID header with the id generated for the request.
C13_EveryResponseCarriesId ==
    \A r \in Reqs :
        ClientResponseHead(rq[r]).received =>
            /\ rq[r].id > 0
            /\ ClientResponseHead(rq[r]).xRequestID = rq[r].id

\* C14: with access logging on, every request ServeHTTP has finished
\* handling has exactly one access record, with the id, host, target
\* port, status, bytes and error of the request, whatever its outcome.
C14_OneRecordPerRequest ==
    \A r \in Reqs :
        (cfg.AccessLog /\ rq[r].pc = "done") =>
            /\ Len(rq[r].logged) = 1
            /\ rq[r].logged[1].request_id = rq[r].id
            /\ rq[r].logged[1].host = rq[r].in.host

\* C15: the status and the terminal error in the access record of an
\* admitted request are the status the client was sent and the error that
\* ended the request; a tunnel whose dial failed is recorded with its 502
\* and its error.
C15_RecordMatchesResponse ==
    \A r \in Reqs :
        LET q == rq[r]
        IN  Len(q.logged) >= 1 =>
              /\ q.w.status # 0 => q.logged[1].status = q.w.status
              /\ q.backendErr # NoError => q.logged[1].error = q.backendErr
              /\ Called(q, "DialTimeout err") =>
                    /\ q.logged[1].status = 502
                    /\ q.logged[1].error # NoError

\* the elements of a comma-separated list, without the blanks around them
RECURSIVE SplitComma(_, _)
SplitComma(s, cur) ==
    IF s = <<>> THEN <<cur>>
    ELSE IF Head(s) = "," THEN <<cur>> \o SplitComma(Tail(s), <<>>)
    ELSE SplitComma(Tail(s), Append(cur, Head(s)))

RECURSIVE TrimLeft(_)
TrimLeft(s) ==
    IF s # <<>> /\ Head(s) = " " THEN TrimLeft(Tail(s)) ELSE s

RECURSIVE TrimRight(_)
TrimRight(s) ==
    IF s # <<>> /\ s[Len(s)] = " " THEN TrimRight(SubSeq(s, 1, Len(s) - 1))
    ELSE s

HeaderTokens(s) ==
    LET parts == SplitComma(s, <<>>)
    IN  {ToLower(TrimRight(TrimLeft(parts[i]))) : i \in 1..Len(parts)}

\* C16: a request is classified as stream-upgrade exactly when "upgrade"
\* is one of the tokens of its Connection header, whatever the case, and
\* its Upgrade header is "websocket", whatever the case.
C16_UpgradeByToken ==
    (probe.kind = "upgrade" /\ probe.applied) =>
        (probe.out <=>
            /\ sUpgradeLower \in HeaderTokens(probe.in.connection)
            /\ ToLower(probe.in.upgrade) = sWebsocket)

\* an admitted stream-upgrade request on a connection that cannot be
\* taken over, whose dial succeeded
TakeoverUnsupported(q) ==
    /\ Called(q, "handleWebSocket")
    /\ ~q.in.hijackable
    /\ Called(q, "DialTimeout ok")

C19_ProvisioningIdempotent ==
    [][(/\ probe.kind = "tls" /\ probe.ok /\ probe.selfSigned
        /\ probe'.selfSigned)
          => /\ probe'.ok
             /\ probe'.how = "loaded"
             /\ probe'.files = probe.files
             /\ probe'.made = probe.made
             /\ probe'.identity = probe.identity]_vars

\* C19 witness: the one identity ever generated is on disk and the last
\* call has loaded it
C19_Witness ==
    /\ probe.kind = "tls"
    /\ probe.selfSigned /\ probe.ok /\ probe.how = "loaded"
    /\ probe.made = 1 /\ probe.identity = 1
    /\ probe.files.cert = [exists |-> TRUE, leaf |-> 1, ca |-> 1]
    /\ probe.files.key = [exists |-> TRUE, key |-> 1]
    /\ probe.files.ca = [exists |-> TRUE, ca |-> 1]

\* C20: a self-signed call in which one of the writes fails returns an
\* error, and whenever a self-signed call succeeds the certificate file,
\* the key file and the CA file hold one and the same generated identity.
C20_NoPartialIdentity ==
    (probe.kind = "tls" /\ probe.selfSigned) =>
        /\ probe.hit # "none" => ~probe.ok
        /\ (probe.ok /\ probe.identity \in 1..probe.made) =>
              /\ probe.files.cert.leaf = probe.identity
              /\ probe.files.cert.ca = probe.identity
              /\ probe.files.key.key = probe.identity
              /\ probe.files.ca.exists
              /\ probe.files.ca.ca = probe.identity

\* C21: with the self-signed flag off, LoadOrGenerateCert succeeds
\* exactly when the certificate file and the key file are there and
\* belong together, returns an error otherwise, and generates and writes
\* nothing.
C21_ExplicitModeNeverGenerates ==
    /\ []((probe.kind = "tls" /\ probe.how # "none" /\ ~probe.selfSigned) =>
            /\ probe.how \in {"loaded", "error"}
            /\ probe.ok = (probe.how = "loaded")
            /\ probe.ok =
                  (/\ probe.files.cert.exists /\ probe.files.key.exists
                   /\ probe.files.cert.leaf # 0
                   /\ probe.files.cert.leaf = probe.files.key.key))
    /\ [][(probe.kind = "tls" /\ ~probe'.selfSigned) =>
            /\ probe'.files = probe.files
            /\ probe'.made = probe.made]_vars

\* C21 witness: an explicit-mode call has failed on a certificate and a
\* key that are both there and do not belong together
C21_Witness ==
    /\ probe.kind = "tls"
    /\ ~probe.selfSigned /\ probe.how = "error" /\ ~probe.ok
    /\ probe.files.cert.exists /\ probe.files.key.exists
    /\ probe.files.cert.leaf = 101
    /\ probe.files.key.key = 102

\* C22: after a successful self-signed generation the certificate file
\* holds the new leaf certificate followed by the new CA certificate, the
\* key file holds the private key of that leaf, and ca.pem holds that
\* same CA certificate, so the stored leaf is signed by the stored CA.
C22_GeneratedFilesLayout ==
    (probe.kind = "tls" /\ probe.how = "generated" /\ probe.ok) =>
        /\ probe.identity = probe.made
        /\ probe.files.cert.exists
        /\ probe.files.cert.leaf = probe.identity
        /\ probe.files.cert.ca = probe.identity
        /\ probe.files.key.exists
        /\ probe.files.key.key = probe.files.cert.leaf
        /\ probe.files.ca.exists
        /\ probe.files.ca.ca = probe.files.cert.ca

\* a generation that succeeded over what an earlier, failed one left
C22_Witness ==
    /\ probe.kind = "tls"
    /\ probe.how = "generated" /\ probe.ok
    /\ probe.made = 2
    /\ probe.files.ca.ca = 2

\* C23: when certificate provisioning fails at startup the process never
\* listens or serves: the listener is started only after Validate and
\* LoadOrGenerateCert have succeeded, and a failure ends run with an error.
C23_NoListenWithoutCertificate ==
    probe.kind = "run" =>
        /\ (probe.listening \/ probe.listened
              \/ \E c \in Conns : probe.conns[c].st # "none")
             => (probe.valid /\ probe.cert = "ok")
        /\ probe.cert # "none" => probe.valid
        /\ probe.cert = "error" =>
             (probe.pc = "exited" /\ probe.exit = "error" /\ ~probe.listened)

\* generation of the self-signed certificate has failed and run is over
C23_Witness ==
    /\ probe.kind = "run"
    /\ probe.selfSigned /\ probe.cert = "error"
    /\ probe.pc = "exited" /\ probe.exit = "error"

\* C27: after a shutdown signal every handler that has not returned,
\* established tunnels included, may run on until the drain deadline;
\* what is left is cut only once the deadline has passed.
C27_DrainDeadlineForAll ==
    probe.kind = "run" =>
        \A c \in Conns :
            probe.conns[c].st = "cut" => probe.conns[c].at >= DrainDeadline

\* C24: every failure response of the proxy (400 invalid host, 403
\* refused port, 502 backend failure on either path, 500 takeover
\* failure) has a JSON body with an error text, a hint and a runnable
\* example URL.
C24_ActionableFailureBody ==
    \A r \in Reqs :
        LET w == rq[r].w
        IN  (/\ w.contentType = "application/json"
             /\ w.status \in {StatusBadRequest, StatusForbidden,
                              StatusBadGateway, StatusInternalServerError}) =>
              /\ Len(w.body) = 1
              /\ w.body[1].Error # <<>>
              /\ w.body[1].Hint # <<>>
              /\ w.body[1].Example # <<>>

\* C25: the 403 answer does not tell which rule refused the port: two
\* servers that refuse the same port, one by a deny range and one because
\* the port lies outside the allow range, send the same status, error
\* text, hint and example.
C25_RefusalHidesRule ==
    (/\ probe.kind = "refusal" /\ probe.applied
     /\ probe.kindA = "denied" /\ probe.kindB = "denied") =>
        /\ probe.wA = probe.wB
        /\ probe.wA.status = StatusForbidden
        /\ Len(probe.wA.body) = 1

\* port 2 is refused by the deny range of the one server, inside its
\* allow range, and by the allow range of the other, which denies nothing
C25_Witness ==
    /\ probe.kind = "refusal" /\ probe.applied
    /\ probe.port = 2
    /\ probe.kindA = "denied" /\ probe.kindB = "denied"
    /\ DeniedFrom(probe.cfgA.DenyPorts, 1, 2)
    /\ Contains(probe.cfgA.AllowRange, 2)
    /\ probe.cfgB.DenyPorts = <<>>
    /\ ~Contains(probe.cfgB.AllowRange, 2)

\* the transports held by handlers between Get and Put
HeldTransports == {rq[r].transport : r \in Reqs} \ {0}

\* the answer of an ordinary request, computed from that request and the
\* result of its own round trip alone
OwnAnswer(q, out) ==
    LET st0 == [w  |-> [NewWriter EXCEPT !.xRequestID = q.w.xRequestID],
                rw |-> NewResponseWriter]
    IN  IF out.err # NoError THEN ErrorHandler(st0, q.port, out.err)
        ELSE RelayResponse(st0, out)

\* C26: a failing request affects neither the transport pool nor other
\* requests: on every path through handleHTTP, backend failure included,
\* the transport checked out is put back exactly once, every transport
\* built is either idle in the pool or held by one handler, the step
\* changes no other request, and the answer of every request is that of
\* its own round trip whatever happened to the others.
C26_FailureIsContained ==
    /\ [](/\ transportPool \cup HeldTransports = 1..transportsMade
          /\ transportPool \cap HeldTransports = {}
          /\ \A r \in Reqs :
                (rq[r].pc = "done" /\ Called(rq[r], "RoundTrip")) =>
                    /\ rq[r].transport = 0
                    /\ \E out \in RoundTripResults(BackendAddr(rq[r].port)) :
                          /\ out.err = rq[r].backendErr
                          /\ OwnAnswer(rq[r], out).w = rq[r].w
                          /\ OwnAnswer(rq[r], out).rw = rq[r].rw)
    /\ [][\A r \in Reqs :
            (rq[r].pc = "http_rt" /\ rq'[r].pc = "done") =>
                /\ rq[r].transport \notin transportPool
                /\ transportPool' = transportPool \cup {rq[r].transport}
                /\ transportsMade' = transportsMade
                /\ requestIDGen' = requestIDGen
                /\ \A o \in Reqs \ {r} : rq'[o] = rq[o]]_vars

\* two requests were in their round trips at once; the first failed, the
\* second was relayed with 200, and both transports are back in the pool
C26_Witness ==
    \E r1 \in Reqs, r2 \in Reqs :
        /\ r1 # r2
        /\ rq[r1].pc = "done" /\ rq[r1].backendErr # NoError
        /\ rq[r1].w.status = StatusBadGateway
        /\ rq[r2].pc = "done" /\ Called(rq[r2], "RoundTrip")
        /\ rq[r2].backendErr = NoError
        /\ rq[r2].w.status = StatusOK
        /\ transportsMade = 2
        /\ transportPool = {1, 2}

\* C30: ParsePortRange returns an error or a range with
\* 1 <= Start <= End <= 65535: a single port p gives {p, p}, "a-b", with
\* or without spaces around the numbers, gives {a, b}, and zero, values
\* above 65535, negative numbers, reversed ranges, words, the empty text
\* and partial ranges such as "135-" give an error; the default deny list
\* parses to ranges with start <= end.
C30_ParsePortRange ==
    (probe.kind = "range" /\ probe.applied) =>
        /\ probe.ok =>
              /\ MinPort <= probe.pr.Start
              /\ probe.pr.Start <= probe.pr.End
              /\ probe.pr.End <= MaxPort
        /\ probe.shape = "single" =>
              /\ probe.ok = (probe.a \in MinPort..MaxPort)
              /\ probe.ok => probe.pr = PortRange(probe.a, probe.a)
        /\ probe.shape \in {"pair", "spaced"} =>
              /\ probe.ok = (/\ probe.a \in MinPort..MaxPort
                             /\ probe.b \in MinPort..MaxPort
                             /\ probe.a <= probe.b)
              /\ probe.ok => probe.pr = PortRange(probe.a, probe.b)
        /\ probe.shape \in {"openEnd", "openStart", "negative", "word",
                             "empty"} => ~probe.ok
        /\ ParsePortRanges(DefaultDenyPortsText).ok
        /\ ParsePortRanges(DefaultDenyPortsText).ranges = DefaultConfig.DenyPorts
        /\ \A i \in 1..Len(DefaultConfig.DenyPorts) :
              DefaultConfig.DenyPorts[i].Start <= DefaultConfig.DenyPorts[i].End

\* " 135 - 139 " was parsed to the range 135..139
C30_Witness ==
    /\ probe.kind = "range" /\ probe.applied
    /\ probe.shape = "spaced"
    /\ probe.text = <<" ", "1", "3", "5", " ", "-", " ", "1", "3", "9", " ">>
    /\ probe.ok
    /\ probe.pr = PortRange(135, 139)

\* C28: every option can be set through its environment variable: when
\* the variable holds a valid value and the flag of the option is not
\* given, the configuration the server runs with has the variable's value.
C28_EnvironmentSetsOptions ==
    (probe.kind = "env" /\ probe.applied /\ probe.ok) =>
        LET e == probe.env
            g == probe.flags.given
            c == probe.cfg
        IN  /\ (e.LISTEN # "" /\ g # "listen") => c.ListenAddr = e.LISTEN
            /\ (e.CERT # "" /\ g # "cert") => c.CertPath = e.CERT
            /\ (e.KEY # "" /\ g # "key") => c.KeyPath = e.KEY
            /\ (e.SELF_SIGNED # "" /\ g # "self-signed") =>
                  c.SelfSigned = (e.SELF_SIGNED = "true")
            /\ (e.DENY_PORTS # <<>> /\ g # "deny-ports") =>
                  c.DenyPorts = ParsePortRanges(e.DENY_PORTS).ranges
            /\ (e.ALLOW_RANGE # <<>> /\ g # "allow-range") =>
                  c.AllowRange = ParsePortRange(e.ALLOW_RANGE).pr
            /\ (e.VERBOSE # "" /\ g # "verbose") => c.Verbose
            /\ (e.ACCESS_LOG # "" /\ g # "access-log") => ~c.AccessLog

\* C29: in self-signed mode a certificate is generated only if it is
\* missing: a call writes files only when the certificate file or the key
\* file does not exist, and never overwrites a certificate and a key that
\* are both present.
C29_GenerateOnlyIfMissing ==
    [][(/\ probe.kind = "tls" /\ probe'.selfSigned
        /\ fileExists(probe.files.cert) /\ fileExists(probe.files.key)) =>
            /\ probe'.files = probe.files
            /\ probe'.how # "generated"]_vars

\* C31: LogRequest emits nothing when access logging is off; when it is
\* on, each call emits exactly one record, a "request failed" record if
\* and only if a terminal error was passed and a "request completed"
\* record otherwise, with the request id of the context.
C31_LogRequestRecords ==
    [][probe.kind = "log" =>
        LET old == probe.q.logged
            new == probe'.q.logged
            q   == probe'.q
        IN  IF ~probe.c.AccessLog THEN new = <<>>
            ELSE /\ Len(new) = Len(old) + 1
                 /\ SubSeq(new, 1, Len(old)) = old
                 /\ new[Len(new)].msg \in {"request failed", "request completed"}
                 /\ (new[Len(new)].msg = "request failed") = (q.rw.err # NoError)
                 /\ new[Len(new)].error = q.rw.err
                 /\ new[Len(new)].request_id = q.id
                 /\ new[Len(new)].status = q.rw.statusCode
                 /\ new[Len(new)].bytes = q.rw.bytesWritten]_vars

\* two calls with logging on: the first without error, the second with a
\* timeout, gave a completed record and then a failed one
C31_Witness ==
    /\ probe.kind = "log" /\ probe.c.AccessLog /\ probe.calls = 2
    /\ Len(probe.q.logged) = 2
    /\ probe.q.logged[1].msg = "request completed"
    /\ probe.q.logged[1].request_id = 1
    /\ probe.q.logged[2].msg = "request failed"
    /\ probe.q.logged[2].request_id = 2
    /\ probe.q.logged[2].error.timeout

\* C32: the wrapper records a status once per request: the first
\* WriteHeader call fixes the recorded status and is the only one passed
\* to the underlying writer, later calls change nothing, a Write before
\* any WriteHeader fixes the status at 200, and the recorded byte count
\* only grows and is the sum of the counts the underlying writer reported.
C32_StatusRecordedOnce ==
    /\ [](probe.kind = "wrapper" =>
            /\ probe.st.rw.wroteHeader = (probe.first # 0)
            /\ probe.first # 0 =>
                  /\ probe.st.rw.statusCode = probe.first
                  /\ probe.st.w.status = probe.first
            /\ probe.st.w.headerCalls = IF probe.first # 0 THEN 1 ELSE 0
            /\ probe.st.rw.bytesWritten = probe.reported
            /\ Len(probe.st.w.body) = probe.reported)
    /\ [][probe.kind = "wrapper" =>
            /\ probe'.st.rw.bytesWritten >= probe.st.rw.bytesWritten
            /\ probe.st.rw.wroteHeader =>
                  /\ probe'.st.rw.statusCode = probe.st.rw.statusCode
                  /\ probe'.st.w.status = probe.st.w.status
                  /\ probe'.st.w.headerCalls = probe.st.w.headerCalls]_vars

\* a Write came first and fixed 200 with one header passed on; after
\* four calls the writer has taken three bytes
C32_Witness ==
    /\ probe.kind = "wrapper" /\ probe.ops = 4
    /\ probe.first = StatusOK
    /\ probe.st.rw.statusCode = StatusOK
    /\ probe.st.w.headerCalls = 1
    /\ probe.st.w.body = <<"h", "h", "i">>
    /\ probe.st.rw.bytesWritten = 3

\* C33: after a successful takeover the backend receives the replayed
\* request head, then the bytes that were buffered from the client before
\* the takeover, each once, then the bytes read from the client socket
\* afterwards: until the buffered bytes are copied nothing but the head
\* has reached the backend, the copy puts exactly the buffered bytes
\* behind the head while the backend is there, and bytes that arrived
\* later stay behind them.
C33_BufferedBytesFirst ==
    /\ [](\A r \in Reqs :
            LET q == rq[r]
            IN  Established(q) =>
                  /\ q.loopC2B = "buf" => q.toBackend = <<"HEAD">>
                  /\ q.clientBuf # <<>> => q.loopC2B = "buf"
                  /\ IsPrefix(q.toBackend, <<"HEAD">> \o q.clientSent))
    /\ [][\A r \in Reqs :
            (Established(rq[r]) /\ rq[r].loopC2B = "buf"
               /\ rq'[r].loopC2B # "buf") =>
                /\ rq'[r].clientBuf = <<>>
                /\ rq'[r].cIn = rq[r].cIn
                /\ (rq[r].backendConn = "open" /\ ~rq[r].bEnd) =>
                      /\ rq'[r].toBackend = <<"HEAD">> \o rq[r].clientBuf
                      /\ rq'[r].clientSent =
                            Tail(rq'[r].toBackend) \o rq'[r].cIn]_vars

\* the buffer is copied: the backend has the head and "h", and "i", which
\* the client sent after "h", waits on the socket behind it
C33_Witness ==
    /\ Established(rq[1])
    /\ rq[1].loopC2B = "run"
    /\ rq[1].clientBuf = <<>>
    /\ rq[1].toBackend = <<"HEAD", "h">>
    /\ rq[1].cIn = <<"i">>
    /\ rq[1].clientSent = <<"h", "i">>
    /\ rq[1].backendConn = "open" /\ ~rq[1].bEnd

\* C34: the X-Forwarded-For header the backend receives for a forwarded
\* request is the inbound value followed by the client address, appended
\* exactly once, and the client address alone when the client sent none.
C34_ForwardedForOnce ==
    (probe.kind = "forward" /\ probe.applied /\ probe.remoteOK) =>
        probe.out = IF probe.prior # <<>>
                    THEN probe.prior \o <<", ", probe.clientIP>>
                    ELSE <<probe.clientIP>>

\* C35: handleWebSocket releases its connections on every return path:
\* when the dial succeeded the backend connection is closed by the time
\* the handler returns, also when the takeover is unsupported, when
\* Hijack fails and when the replay of the request fails; when the
\* takeover succeeded the client connection is closed by then as well.
C35_ConnectionsReleased ==
    \A r \in Reqs :
        LET q == rq[r]
        IN  q.pc = "done" =>
              /\ Called(q, "DialTimeout ok") => q.backendConn = "closed"
              /\ q.hijacked => q.clientConn = "closed"
              /\ q.backendConn # "open"
              /\ q.clientConn # "open"

\* Hijack has failed after a successful dial: the handler has returned,
\* the backend connection is closed, the client's was never taken over
C35_Witness ==
    /\ rq[1].pc = "done"
    /\ Called(rq[1], "DialTimeout ok")
    /\ Called(rq[1], "Hijack")
    /\ ~rq[1].hijacked
    /\ rq[1].backendConn = "closed"
    /\ rq[1].clientConn = "none"

====
